---------------------------- MODULE Spec2Model ----------------------------
(***************************************************************************)
(* A model of the resume desktop application: the validated data model     *)
(* (models/type_validator.py, models/models.py), its structured-record     *)
(* round trip (to_dict / from_dict), the LaTeX renderer                    *)
(* (latex/converter.py) and the entry lists of the Tk user interface       *)
(* (user_interface/ui.py).                                                 *)
(*                                                                         *)
(* A Python string is a sequence of one-character strings, so len() is Len *)
(* and every validator works on the characters it really reads.  The clock *)
(* (datetime.today()) is the variable now, counted in ticks; a process's   *)
(* string-hash seed (PYTHONHASHSEED, random per launch) is hashSeed.       *)
(***************************************************************************)
EXTENDS Integers, Sequences, FiniteSets, TLC

VARIABLES
    now,        \* the wall clock, in ticks since 01-01-0001 00:00
    hashSeed,   \* the hash seed of the running process
    data,       \* the structured record (the JSON file's content)
    resume,     \* the Resume assembled by direct construction
    loaded,     \* the outcome of the last Resume.from_dict(data)
    latex,      \* the renderer's runs on the current record, newest first
    ui,         \* the in-memory lists and header fields of ResumeMakerApp
    built,      \* the outcome of the last _build_resume_object()
    escArgs,    \* the pair of strings handed to esc
    escOut      \* what esc returned for them

vars == <<now, hashSeed, data, resume, loaded, latex, ui, built, escArgs, escOut>>

---------------------------------------------------------------------------
(* Python values *)

\* Where a string may stand: None, the empty dict {} and a key that a dict
\* does not carry.  None of the three is a string: their one element is not
\* a character.
None == <<"<None>">>
EmptyDict == <<"<{}>">>
Missing == <<"<missing>">>

\* Where an object may stand: None.
NoneObj == [isNone |-> TRUE]

\* The outcome of a call: a value, or a raised exception.
Ok(v) == [ok |-> TRUE, v |-> v, err |-> "none"]
Raise(kind) == [ok |-> FALSE, v |-> None, err |-> kind]

\* bool(x) of a string, of {} or of None.
Truthy(x) == x # None /\ x # Missing /\ x # EmptyDict /\ x # <<>>

\* The first exception that a sequence of calls raises, in their order.
Failed(rs) == \E i \in DOMAIN rs : ~rs[i].ok
FirstError(rs) == rs[CHOOSE i \in DOMAIN rs : ~rs[i].ok /\ \A j \in 1..(i - 1) : rs[j].ok]
Values(rs) == [i \in DOMAIN rs |-> rs[i].v]

\* d[key]: KeyError for a missing key.
Index(x) == IF x = Missing THEN Raise("KeyError") ELSE Ok(x)

\* dict.get(key): None for a missing key.
Get(x) == IF x = Missing THEN None ELSE x

\* dict.get(key, default).
GetDefault(x, default) == IF x = Missing THEN default ELSE x

Range(s) == {s[i] : i \in DOMAIN s}

Front(s) == SubSeq(s, 1, Len(s) - 1)

RECURSIVE Concat(_)
Concat(ss) == IF ss = <<>> THEN <<>> ELSE Head(ss) \o Concat(Tail(ss))

\* sep.join(items)
RECURSIVE Join(_, _)
Join(sep, items) ==
    IF items = <<>> THEN <<>>
    ELSE IF Len(items) = 1 THEN items[1]
    ELSE items[1] \o sep \o Join(sep, Tail(items))

StartsWith(s, prefix) ==
    /\ Len(s) >= Len(prefix)
    /\ SubSeq(s, 1, Len(prefix)) = prefix

---------------------------------------------------------------------------
(* Characters *)

Digits == <<"0", "1", "2", "3", "4", "5", "6", "7", "8", "9">>
LowerCase == <<"a", "b", "c", "d", "e", "f", "g", "h", "i", "j", "k", "l", "m",
               "n", "o", "p", "q", "r", "s", "t", "u", "v", "w", "x", "y", "z">>
UpperCase == <<"A", "B", "C", "D", "E", "F", "G", "H", "I", "J", "K", "L", "M",
               "N", "O", "P", "Q", "R", "S", "T", "U", "V", "W", "X", "Y", "Z">>
Whitespace == {" ", "\t", "\n"}

DigitChars == {Digits[i] : i \in DOMAIN Digits}
UpperChars == {UpperCase[i] : i \in DOMAIN UpperCase}
WordChars ==
    DigitChars \cup UpperChars \cup {LowerCase[i] : i \in DOMAIN LowerCase} \cup {"_"}

IsDigit(c) == c \in DigitChars

\* int(c) of a digit character
DigitValue(c) == (CHOOSE i \in DOMAIN Digits : Digits[i] = c) - 1

\* the regex class \w
IsWord(c) == c \in WordChars

\* the regex class [\w\-]
IsWordDash(c) == IsWord(c) \/ c = "-"

\* the regex class [^@\s]
IsEmailChar(c) == c # "@" /\ c \notin Whitespace

LowerChar(c) ==
    IF c \in UpperChars
    THEN LowerCase[CHOOSE i \in DOMAIN UpperCase : UpperCase[i] = c]
    ELSE c

\* str.lower()
Lower(s) == [i \in DOMAIN s |-> LowerChar(s[i])]

\* A regex ending in $ matches the whole string, or all of it but a final
\* newline.
DollarMatch(Core(_), s) ==
    \/ Core(s)
    \/ Len(s) > 0 /\ s[Len(s)] = "\n" /\ Core(Front(s))

---------------------------------------------------------------------------
(* models/type_validator.py *)

\* ^[^@\s]+@[^@\s]+\.[^@\s]+  up to the $
EmailCore(s) ==
    \E i \in DOMAIN s :
        /\ i > 1
        /\ s[i] = "@"
        /\ \A k \in DOMAIN s : k # i => IsEmailChar(s[k])
        /\ \E j \in DOMAIN s : j >= i + 2 /\ j < Len(s) /\ s[j] = "."

Email_regex(s) == DollarMatch(EmailCore, s)

Email(value) ==
    IF ~Email_regex(value) THEN Raise("ValueError") ELSE Ok([value |-> value])

\* ^\d{10}  up to the $
PhoneCore(s) == Len(s) = 10 /\ \A k \in DOMAIN s : IsDigit(s[k])

PhoneNumber_regex(s) == DollarMatch(PhoneCore, s)

PhoneNumber(value) ==
    IF ~PhoneNumber_regex(value) THEN Raise("ValueError") ELSE Ok([value |-> value])

S_http == <<"h", "t", "t", "p", ":", "/", "/">>
S_https == <<"h", "t", "t", "p", "s", ":", "/", "/">>
S_www == <<"w", "w", "w", ".">>

\* Where (https?://)?(www\.)? can end: the number of characters it took.
UrlPrefixEnds(s) ==
    LET scheme == {0} \cup {Len(p) : p \in {q \in {S_http, S_https} : StartsWith(s, q)}}
    IN  scheme \cup
        {p + Len(S_www) : p \in {q \in scheme :
            StartsWith(SubSeq(s, q + 1, Len(s)), S_www)}}

\* ^(https?://)?(www\.)?[\w\-]+(\.[\w\-]+)+[/#?]?.*  up to the $ : a first
\* label, one dotted label, and then anything that . matches (no newline).
UrlCore(s) ==
    \E p \in UrlPrefixEnds(s) :
        \E i \in (p + 1)..(Len(s) - 2) :
            /\ s[i + 1] = "."
            /\ \A k \in (p + 1)..i : IsWordDash(s[k])
            /\ \E j \in (i + 2)..Len(s) :
                    /\ \A k \in (i + 2)..j : IsWordDash(s[k])
                    /\ \A k \in (j + 1)..Len(s) : s[k] # "\n"

Website_url_regex(s) == DollarMatch(UrlCore, s)

Website(value) ==
    IF ~Website_url_regex(value) THEN Raise("ValueError") ELSE Ok([value |-> value])

S_linkedin == <<"h", "t", "t", "p", "s", ":", "/", "/", "w", "w", "w", ".",
                "l", "i", "n", "k", "e", "d", "i", "n", ".", "c", "o", "m", "/">>
S_github == <<"h", "t", "t", "p", "s", ":", "/", "/",
              "g", "i", "t", "h", "u", "b", ".", "c", "o", "m", "/">>

LinkedIn(value) ==
    IF ~StartsWith(value, S_linkedin) THEN Raise("ValueError") ELSE Website(value)

GitHub(value) ==
    IF ~StartsWith(value, S_github) THEN Raise("ValueError") ELSE Website(value)

S_present == <<"p", "r", "e", "s", "e", "n", "t">>

\* The clock's resolution: ticks in a day.  Midnight is tick 0 of its day.
TicksPerDay == 2

RECURSIVE Number(_)
Number(ds) ==
    IF ds = <<>> THEN 0
    ELSE 10 * Number(Front(ds)) + DigitValue(ds[Len(ds)])

AllDigits(ds) == \A k \in DOMAIN ds : IsDigit(ds[k])

IsLeap(y) == (y % 4 = 0 /\ y % 100 # 0) \/ y % 400 = 0

DaysInMonth(y, m) ==
    IF m = 2 THEN (IF IsLeap(y) THEN 29 ELSE 28)
    ELSE IF m \in {4, 6, 9, 11} THEN 30 ELSE 31

RECURSIVE DaysBeforeMonth(_, _)
DaysBeforeMonth(y, m) ==
    IF m = 1 THEN 0 ELSE DaysBeforeMonth(y, m - 1) + DaysInMonth(y, m - 1)

\* datetime(y, m, d).toordinal()
Ordinal(y, m, d) ==
    LET p == y - 1
    IN  365 * p + (p \div 4) - (p \div 100) + (p \div 400) + DaysBeforeMonth(y, m) + d

\* The fields strptime reads with "%d-%m-%Y": the day is one or two digits
\* (or a space and a digit), the month one or two digits, the year four.
DateFields(s) ==
    {f \in [a : {1, 2}, b : {1, 2}] :
        /\ Len(s) = f.a + f.b + 6
        /\ s[f.a + 1] = "-"
        /\ s[f.a + f.b + 2] = "-"
        /\ LET dd == SubSeq(s, 1, f.a)
               mm == SubSeq(s, f.a + 2, f.a + f.b + 1)
               yy == SubSeq(s, f.a + f.b + 3, Len(s))
               dn == IF dd[1] = " " THEN Tail(dd) ELSE dd
           IN  /\ dn # <<>> /\ AllDigits(dn) /\ AllDigits(mm) /\ AllDigits(yy)
               /\ Number(mm) \in 1..12
               /\ Number(yy) >= 1
               /\ Number(dn) \in 1..DaysInMonth(Number(yy), Number(mm))}

\* datetime.strptime(value, "%d-%m-%Y"): raises ValueError, or the midnight
\* of the day, in ticks.
Strptime(s) ==
    IF DateFields(s) = {} THEN Raise("ValueError")
    ELSE LET f == CHOOSE g \in DateFields(s) : TRUE
             dd == SubSeq(s, 1, f.a)
             dn == IF dd[1] = " " THEN Tail(dd) ELSE dd
             mm == SubSeq(s, f.a + 2, f.a + f.b + 1)
             yy == SubSeq(s, f.a + f.b + 3, Len(s))
         IN  Ok(Ordinal(Number(yy), Number(mm), Number(dn)) * TicksPerDay)

\* Date(value): "present" in any case is stored as "present", a day that
\* strptime reads is stored as written.
Date(value) ==
    IF value = None THEN Raise("AttributeError")
    ELSE IF Lower(value) = S_present THEN Ok([value |-> S_present])
    ELSE IF ~Strptime(value).ok THEN Raise("ValueError")
    ELSE Ok([value |-> value])

\* A to_datetime that would give the clock's time for every Date.
to_datetime_today(date, t) == t

\* Date.to_datetime(), called when the clock shows t.
to_datetime(date, t) ==
    IF date.value = S_present THEN t ELSE Strptime(date.value).v

\* __str__ of a validator object
Str(obj) == obj.value

---------------------------------------------------------------------------
(* The built-in set *)

\* Every character that the model's strings are written in; ord() is the
\* place in this list.
Alphabet ==
    Digits \o LowerCase \o UpperCase \o
    <<" ", "\t", "\n", "&", "%", "$", "#", "_", "{", "}", "~", "^", "\\",
      "@", ".", "-", "/", ":", "+", ",", "?", "(", ")", "|", "=">>

Ord(c) == CHOOSE i \in DOMAIN Alphabet : Alphabet[i] = c

RECURSIVE StrSum(_)
StrSum(s) == IF s = <<>> THEN 0 ELSE Ord(Head(s)) + StrSum(Tail(s))

\* A set of up to four elements is a table of eight slots (the table grows
\* with its fifth element).
SetSlots == 0..7

\* hash(s) of a string, reduced to a slot: keyed by the process's seed.
HashSlot(s, seed) == (StrSum(s) * (2 * seed + 1) + seed) % Cardinality(SetSlots)

\* The table after adding the elements of a list in order: an element goes
\* to its slot, or to the next free one after it (wrapping round).
RECURSIVE SetTable(_, _, _)
SetTable(table, items, seed) ==
    IF items = <<>> THEN table
    ELSE IF \E k \in SetSlots : table[k] = Head(items)
         THEN SetTable(table, Tail(items), seed)
    ELSE LET h == HashSlot(Head(items), seed)
             n == Cardinality(SetSlots)
             d == CHOOSE e \in 0..(n - 1) :
                     /\ table[(h + e) % n] = None
                     /\ \A f \in 0..(e - 1) : table[(h + f) % n] # None
         IN  SetTable([table EXCEPT ![(h + d) % n] = Head(items)], Tail(items), seed)

\* set(items) in a process with this hash seed: the elements, and the
\* order in which iterating the set yields them (the slots in order).
PySet(items, seed) ==
    LET table == SetTable([k \in SetSlots |-> None], items, seed)
        RECURSIVE Walk(_)
        Walk(k) ==
            IF k \notin SetSlots THEN <<>>
            ELSE (IF table[k] = None THEN <<>> ELSE <<table[k]>>) \o Walk(k + 1)
    IN  [elems |-> Range(items), order |-> Walk(0)]

\* list(s) of a set
List(s) == s.order

---------------------------------------------------------------------------
(* models/models.py: the aggregates *)

Header(name, email, number, linkedin, portfolio, github) ==
    Ok([name |-> name, email |-> email, number |-> number,
        linkedin |-> linkedin, portfolio |-> portfolio, github |-> github])

\* A SkillType that would take any set of skills, the empty one too.
SkillType_unchecked(name, skills) == Ok([name |-> name, skills |-> skills])

SkillType(name, skills) ==
    IF skills.elems = {} THEN Raise("ValueError")
    ELSE Ok([name |-> name, skills |-> skills])

\* A section a Resume does not have (None), and one it has.
NoSection == [present |-> FALSE, items |-> <<>>]

SkillSection(skill_types) == Ok([present |-> TRUE, items |-> skill_types])

\* BulletPoint's limit on len(text)
MaxBulletLen == 255

\* The limit of the BulletPoint of src/models.py, the module of the same
\* name beside the package that the program imports.
OldBulletLen == 100

\* BulletPoint of src/models.py
BulletPoint_old(text) ==
    IF ~Truthy(text) THEN Raise("ValueError")
    ELSE IF Len(text) > OldBulletLen THEN Raise("ValueError")
    ELSE Ok([text |-> text])

BulletPoint(text) ==
    IF ~Truthy(text) THEN Raise("ValueError")
    ELSE IF Len(text) > MaxBulletLen THEN Raise("ValueError")
    ELSE Ok([text |-> text])

\* Experience(...), called when the clock shows t; tick is what the clock
\* gains between the constructor's first reading of it and the next ones.
Experience(position, company, description, start_date, end_date, t, tick) ==
    IF ~Truthy(position) \/ ~Truthy(company) THEN Raise("ValueError")
    ELSE IF description = <<>> THEN Raise("ValueError")
    ELSE LET end == IF end_date = NoneObj THEN Date(S_present).v ELSE end_date
         IN  IF \/ to_datetime(start_date, t) >= to_datetime(end, t + tick)
                \/ to_datetime(start_date, t + tick) > t + tick
             THEN Raise("ValueError")
             ELSE Ok([position |-> position, company |-> company,
                      description |-> description,
                      start_date |-> start_date, end_date |-> end])

ExperienceSection(experiences) == Ok([present |-> TRUE, items |-> experiences])

Project(name, skills, description, link) ==
    IF ~Truthy(name) \/ skills = <<>> THEN Raise("ValueError")
    ELSE IF description = <<>> THEN Raise("ValueError")
    ELSE Ok([name |-> name, skills |-> skills, description |-> description,
             link |-> link])

ProjectSection(projects) == Ok([present |-> TRUE, items |-> projects])

\* A GPA is a float, counted here in tenths: 39 is 3.9.
Float(tenths) == [float |-> tenths]

\* An Education that would refuse the two ends of the GPA range.
Education_open_range(school, degree, start_date, awards, gpa, t, tick) ==
    IF ~Truthy(degree) \/ ~Truthy(school) THEN Raise("ValueError")
    ELSE IF to_datetime(start_date, t) >= t + tick THEN Raise("ValueError")
    ELSE IF gpa # NoneObj /\ (gpa.float <= 0 \/ gpa.float >= 40) THEN Raise("ValueError")
    ELSE Ok([school |-> school, degree |-> degree, start_date |-> start_date,
             awards |-> awards, gpa |-> gpa])

Education(school, degree, start_date, awards, gpa, t, tick) ==
    IF ~Truthy(degree) \/ ~Truthy(school) THEN Raise("ValueError")
    ELSE IF to_datetime(start_date, t) >= t + tick THEN Raise("ValueError")
    ELSE IF gpa # NoneObj /\ (gpa.float < 0 \/ gpa.float > 40) THEN Raise("ValueError")
    ELSE Ok([school |-> school, degree |-> degree, start_date |-> start_date,
             awards |-> awards, gpa |-> gpa])

EducationSection(educations) == Ok([present |-> TRUE, items |-> educations])

Resume(header, skills, experience, projects, education) ==
    [header |-> header, skills |-> skills, experience |-> experience,
     projects |-> projects, education |-> education]

---------------------------------------------------------------------------
(* models/models.py: to_dict *)

\* A section of the record: null (or no such key), the empty dict {}, a
\* dict that carries the list of entries, or a dict without that key.
NullSection == [kind |-> "null", list |-> <<>>]
DictSection(list) == [kind |-> "dict", list |-> list]

\* "str(x) if x else None" of an optional validator object
StrOrNone(obj) == IF obj # NoneObj THEN Str(obj) ELSE None

Header_to_dict(h) ==
    [name |-> h.name,
     email |-> StrOrNone(h.email),
     number |-> StrOrNone(h.number),
     linkedin |-> StrOrNone(h.linkedin),
     portfolio |-> StrOrNone(h.portfolio),
     github |-> StrOrNone(h.github)]

SkillSection_to_dict(sec) ==
    DictSection([i \in DOMAIN sec.items |->
        [name |-> sec.items[i].name, skills |-> List(sec.items[i].skills)]])

BulletPoint_to_dict(bp) == [text |-> bp.text]

Experience_to_dict(e) ==
    [position |-> e.position,
     company |-> e.company,
     description |-> [i \in DOMAIN e.description |-> BulletPoint_to_dict(e.description[i])],
     start_date |-> Str(e.start_date),
     end_date |-> Str(e.end_date)]

ExperienceSection_to_dict(sec) ==
    DictSection([i \in DOMAIN sec.items |-> Experience_to_dict(sec.items[i])])

Project_to_dict(p) ==
    [name |-> p.name,
     skills |-> p.skills,
     description |-> [i \in DOMAIN p.description |-> BulletPoint_to_dict(p.description[i])],
     link |-> StrOrNone(p.link)]

ProjectSection_to_dict(sec) ==
    DictSection([i \in DOMAIN sec.items |-> Project_to_dict(sec.items[i])])

Education_to_dict(e) ==
    [school |-> e.school,
     degree |-> e.degree,
     start_date |-> Str(e.start_date),
     awards |-> e.awards,
     gpa |-> e.gpa]

EducationSection_to_dict(sec) ==
    DictSection([i \in DOMAIN sec.items |-> Education_to_dict(sec.items[i])])

Resume_to_dict(r) ==
    [header |-> Header_to_dict(r.header),
     skills |-> IF r.skills.present THEN SkillSection_to_dict(r.skills) ELSE NullSection,
     experience |-> IF r.experience.present
                    THEN ExperienceSection_to_dict(r.experience) ELSE NullSection,
     projects |-> IF r.projects.present
                  THEN ProjectSection_to_dict(r.projects) ELSE NullSection,
     education |-> IF r.education.present
                   THEN EducationSection_to_dict(r.education) ELSE NullSection]

---------------------------------------------------------------------------
(* models/models.py: Resume.from_dict *)

\* "V(d[key]) if d.get(key) else None" for a validator V
Optional(V(_), x) == IF Truthy(Get(x)) THEN V(x) ELSE Ok(NoneObj)

\* data.get(section) is truthy; its .get(list_key, [])
SectionGiven(sec) == sec.kind \in {"dict", "other"}
SectionList(sec) == IF sec.kind = "dict" THEN sec.list ELSE <<>>

\* A call whose arguments are evaluated first, in order: the first of them
\* to raise ends it.
Call(args, result) == IF Failed(args) THEN FirstError(args) ELSE result

header_from_dict(h) ==
    LET email == Optional(Email, h.email)
        number == Optional(PhoneNumber, h.number)
        linkedin == Optional(LinkedIn, h.linkedin)
        portfolio == Optional(Website, h.portfolio)
        github == Optional(GitHub, h.github)
    IN  Call(<<email, number, linkedin, portfolio, github>>,
             Header(GetDefault(h.name, EmptyDict), email.v, number.v,
                    linkedin.v, portfolio.v, github.v))

skill_type_from_dict(st, seed) ==
    LET name == Index(st.name)
    IN  Call(<<name>>, SkillType(name.v, PySet(st.skills, seed)))

bullets_from_dict(description) ==
    [i \in DOMAIN description |-> BulletPoint(description[i].text)]

experience_from_dict(exp, t, tick) ==
    LET position == Index(exp.position)
        company == Index(exp.company)
        description == bullets_from_dict(exp.description)
        start_date == Call(<<Index(exp.start_date)>>, Date(exp.start_date))
        end_date == IF Truthy(Get(exp.end_date)) THEN Date(exp.end_date)
                    ELSE Date(S_present)
    IN  Call(<<position, company>> \o description \o <<start_date, end_date>>,
             Experience(position.v, company.v, Values(description),
                        start_date.v, end_date.v, t, tick))

project_from_dict(proj) ==
    LET name == Index(proj.name)
        description == bullets_from_dict(proj.description)
        link == Optional(Website, proj.link)
    IN  Call(<<name>> \o description \o <<link>>,
             Project(name.v, proj.skills, Values(description), link.v))

education_from_dict(edu, t, tick) ==
    LET school == Index(edu.school)
        degree == Index(edu.degree)
        start_date == Call(<<Index(edu.start_date)>>, Date(edu.start_date))
    IN  Call(<<school, degree, start_date>>,
             Education(school.v, degree.v, start_date.v, edu.awards, edu.gpa, t, tick))

\* One section of from_dict: None when the record gives none, else the
\* section built from the entries, each constructed in the list's order.
section_from_dict(sec, entries, Section(_)) ==
    IF ~SectionGiven(sec) THEN Ok(NoSection)
    ELSE Call(entries, Section(Values(entries)))

\* Resume.from_dict(data) in a process with this hash seed, called when the
\* clock shows t.
from_dict(d, seed, t, tick) ==
    LET header == header_from_dict(d.header)
        skills == section_from_dict(d.skills,
            [i \in DOMAIN SectionList(d.skills) |->
                skill_type_from_dict(SectionList(d.skills)[i], seed)],
            SkillSection)
        experience == section_from_dict(d.experience,
            [i \in DOMAIN SectionList(d.experience) |->
                experience_from_dict(SectionList(d.experience)[i], t, tick)],
            ExperienceSection)
        projects == section_from_dict(d.projects,
            [i \in DOMAIN SectionList(d.projects) |->
                project_from_dict(SectionList(d.projects)[i])],
            ProjectSection)
        education == section_from_dict(d.education,
            [i \in DOMAIN SectionList(d.education) |->
                education_from_dict(SectionList(d.education)[i], t, tick)],
            EducationSection)
    IN  Call(<<header, skills, experience, projects, education>>,
             Ok(Resume(header.v, skills.v, experience.v, projects.v, education.v)))

---------------------------------------------------------------------------
(* latex/converter.py *)

\* The text that the converter returns is kept as a sequence of symbols,
\* each with where it comes from: a piece of the template ("tpl"), a
\* character of a label, after whatever was done to the label ("field"),
\* or a character of the address of a link ("url").
Tpl(s) == IF s = "" THEN <<>> ELSE <<[o |-> "tpl", s |-> s]>>
Tagged(o, chars) == [i \in DOMAIN chars |-> [o |-> o, s |-> chars[i]]]
Field(chars) == Tagged("field", chars)
Url(chars) == Tagged("url", chars)
NL == Tpl("\n")

\* The preamble is one fixed text, held as one symbol.
LATEX_PREAMBLE == Tpl("\n%-------------------------\n% Resume in Latex ... \\begin{document}\n")

LATEX_END == Tpl("\\end{document}")

LATEX_SPECIALS ==
    ("&" :> <<"\\", "&">>) @@
    ("%" :> <<"\\", "%">>) @@
    ("$" :> <<"\\", "$">>) @@
    ("#" :> <<"\\", "#">>) @@
    ("_" :> <<"\\", "_">>) @@
    ("{" :> <<"\\", "{">>) @@
    ("}" :> <<"\\", "}">>) @@
    ("~" :> <<"\\", "t", "e", "x", "t", "a", "s", "c", "i", "i", "t", "i", "l", "d", "e", "{", "}">>) @@
    ("^" :> <<"\\", "t", "e", "x", "t", "a", "s", "c", "i", "i", "c", "i", "r", "c", "u", "m", "{", "}">>) @@
    ("\\" :> <<"\\", "t", "e", "x", "t", "b", "a", "c", "k", "s", "l", "a", "s", "h", "{", "}">>)

\* esc(text) of a str or of None
esc(text) ==
    IF text = None THEN <<>>
    ELSE Concat([i \in DOMAIN text |->
            IF text[i] \in DOMAIN LATEX_SPECIALS THEN LATEX_SPECIALS[text[i]]
            ELSE <<text[i]>>])

\* A str among values that may be objects or None.
PyStr(chars) == [str |-> chars]

\* href(url, label, blue); the url is a str, an object or None.
\* An href that would put the label into the output as it is given.
href_raw(url, label, blue) ==
    IF url = NoneObj \/ url = PyStr(<<>>) THEN Ok(Field(label))
    ELSE IF "str" \notin DOMAIN url THEN Raise("TypeError")
    ELSE IF blue
    THEN Ok(Tpl("\\href{") \o Url(url.str) \o Tpl("}{\\textcolor{vibrantblue}{")
            \o Field(label) \o Tpl("}}"))
    ELSE Ok(Tpl("\\href{") \o Url(url.str) \o Tpl("}{") \o Field(label) \o Tpl("}"))

\* An href that would pass the address through esc as it does the label.
href_escaped(url, label, blue) ==
    IF url = NoneObj \/ url = PyStr(<<>>) THEN Ok(Field(esc(label)))
    ELSE IF "str" \notin DOMAIN url THEN Raise("TypeError")
    ELSE IF blue
    THEN Ok(Tpl("\\href{") \o Url(esc(url.str)) \o Tpl("}{\\textcolor{vibrantblue}{")
            \o Field(esc(label)) \o Tpl("}}"))
    ELSE Ok(Tpl("\\href{") \o Url(esc(url.str)) \o Tpl("}{") \o Field(esc(label)) \o Tpl("}"))

href(url, label, blue) ==
    IF url = NoneObj \/ url = PyStr(<<>>) THEN Ok(Field(esc(label)))
    ELSE IF "str" \notin DOMAIN url THEN Raise("TypeError")
    ELSE IF blue
    THEN Ok(Tpl("\\href{") \o Url(url.str) \o Tpl("}{\\textcolor{vibrantblue}{")
            \o Field(esc(label)) \o Tpl("}}"))
    ELSE Ok(Tpl("\\href{") \o Url(url.str) \o Tpl("}{") \o Field(esc(label)) \o Tpl("}"))

fa_mapping ==
    ("Train" :> "\\faTrain") @@
    ("Heartbeat" :> "\\faHeartbeat") @@
    ("Trophy" :> "\\faTrophy") @@
    ("Dragon" :> "\\faDragon") @@
    ("Plus" :> "\\faPlus") @@
    ("GraduationCap" :> "\\faGraduationCap") @@
    ("ShareSquare" :> "\\faShareSquare") @@
    ("Github" :> "\\faGithub") @@
    ("Linkedin" :> "\\faLinkedin") @@
    ("Globe" :> "\\faGlobe") @@
    ("Envelope" :> "\\faEnvelope") @@
    ("Phone" :> "\\faPhone")

\* fa(icon_name); no icon name is "".
fa(icon_name) ==
    IF icon_name = "" THEN ""
    ELSE IF icon_name \in DOMAIN fa_mapping THEN fa_mapping[icon_name] ELSE ""

blue_icon(icon_name) ==
    LET cmd == fa(icon_name)
    IN  IF cmd = "" THEN <<>>
        ELSE Tpl("{\\textcolor{vibrantblue}") \o Tpl(cmd) \o Tpl("\\hspace{0.5mm}} ")

\* sub in s
Contains(s, sub) ==
    \E i \in 0..(Len(s) - Len(sub)) : SubSeq(s, i + 1, i + Len(sub)) = sub

\* A maybe_icon_from_role that would try the rules from the last to the first.
maybe_icon_from_role_reversed(role) ==
    LET s == Lower(IF Truthy(role) THEN role ELSE <<>>)
    IN
        IF Contains(s, <<"t", "e", "a", "c", "h", "e", "r">>) \/ Contains(s, <<"t", "u", "t", "o", "r">>) \/ Contains(s, <<"a", "s", "s", "i", "s", "t", "a", "n", "t">>)
            THEN "Plus"
        ELSE IF Contains(s, <<"k", "a", "r", "a", "t", "e">>) \/ Contains(s, <<"m", "a", "r", "t", "i", "a", "l">>)
            THEN "Dragon"
        ELSE IF Contains(s, <<"h", "a", "c", "k", "a", "t", "h", "o", "n">>) \/ Contains(s, <<"f", "o", "u", "n", "d", "e", "r">>) \/ Contains(s, <<"l", "e", "a", "d">>)
            THEN "Trophy"
        ELSE IF Contains(s, <<"e", "m", "g">>) \/ Contains(s, <<"s", "e", "n", "s", "o", "r">>) \/ Contains(s, <<"b", "i", "o">>)
            THEN "Heartbeat"
        ELSE IF Contains(s, <<"t", "e", "s", "t">>) \/ Contains(s, <<"a", "u", "t", "o", "m", "a", "t", "i", "o", "n">>)
            THEN "Train"
        ELSE ""

\* maybe_icon_from_role(role); None is "".
maybe_icon_from_role(role) ==
    LET s == Lower(IF Truthy(role) THEN role ELSE <<>>)
    IN
        IF Contains(s, <<"t", "e", "s", "t">>) \/ Contains(s, <<"a", "u", "t", "o", "m", "a", "t", "i", "o", "n">>)
            THEN "Train"
        ELSE IF Contains(s, <<"e", "m", "g">>) \/ Contains(s, <<"s", "e", "n", "s", "o", "r">>) \/ Contains(s, <<"b", "i", "o">>)
            THEN "Heartbeat"
        ELSE IF Contains(s, <<"h", "a", "c", "k", "a", "t", "h", "o", "n">>) \/ Contains(s, <<"f", "o", "u", "n", "d", "e", "r">>) \/ Contains(s, <<"l", "e", "a", "d">>)
            THEN "Trophy"
        ELSE IF Contains(s, <<"k", "a", "r", "a", "t", "e">>) \/ Contains(s, <<"m", "a", "r", "t", "i", "a", "l">>)
            THEN "Dragon"
        ELSE IF Contains(s, <<"t", "e", "a", "c", "h", "e", "r">>) \/ Contains(s, <<"t", "u", "t", "o", "r">>) \/ Contains(s, <<"a", "s", "s", "i", "s", "t", "a", "n", "t">>)
            THEN "Plus"
        ELSE ""

\* _str(val): "" of None, str(val) of anything else; str({}) is "{}".
to_str(val) ==
    IF val = None THEN <<>>
    ELSE IF val = EmptyDict THEN <<"{", "}">>
    ELSE val

\* str.strip() of a text whose ends are characters
RECURSIVE Strip(_)
Strip(syms) ==
    IF syms = <<>> THEN <<>>
    ELSE IF Head(syms).s \in Whitespace THEN Strip(Tail(syms))
    ELSE IF syms[Len(syms)].s \in Whitespace THEN Strip(Front(syms))
    ELSE syms

S_mailto == <<"m", "a", "i", "l", "t", "o", ":">>
S_tel == <<"t", "e", "l", ":">>
S_Linkedin == <<"L", "i", "n", "k", "e", "d", "i", "n">>
S_Website == <<"W", "e", "b", "s", "i", "t", "e">>
S_GitHub == <<"G", "i", "t", "H", "u", "b">>
S_comma == <<",", " ">>
S_GPA == <<"G", "P", "A">>

\* A chunk of the contact line that would be the link without its icon.
contact_chunk_bare(icon, link) == link.v

\* One chunk of the contact line: the icon, a line break, the link.
contact_chunk(icon, link) ==
    Tpl(icon) \o Tpl("\n    ") \o link.v

build_header(h) ==
    LET email == to_str(Str(h.email))
        digits == to_str(Str(h.number))
        tel_url == S_tel \o SelectSeq(digits, LAMBDA ch : IsDigit(ch) \/ ch = "+")
        contact_chunks ==
            (IF h.email # NoneObj
             THEN <<contact_chunk("    {\\textcolor{vibrantblue}\\faEnvelope \\hspace{0.5mm}}",
                        href(PyStr(S_mailto \o email), email, TRUE))>>
             ELSE <<>>)
            \o (IF h.number # NoneObj
                THEN <<contact_chunk("    {\\textcolor{vibrantblue}\\faPhone \\hspace{0.5mm}}",
                        href(PyStr(tel_url), digits, TRUE))>>
                ELSE <<>>)
            \o (IF h.linkedin # NoneObj
                THEN <<contact_chunk("    {\\textcolor{vibrantblue}\\faLinkedin \\hspace{0.5mm}}",
                        href(PyStr(to_str(Str(h.linkedin))), S_Linkedin, TRUE))>>
                ELSE <<>>)
            \o (IF h.portfolio # NoneObj
                THEN <<contact_chunk("    {\\textcolor{vibrantblue}\\faGlobe \\hspace{0.5mm}}",
                        href(PyStr(to_str(Str(h.portfolio))), S_Website, TRUE))>>
                ELSE <<>>)
            \o (IF h.github # NoneObj
                THEN <<contact_chunk("    {\\textcolor{vibrantblue}\\faGithub \\hspace{0.5mm}}",
                        href(PyStr(to_str(Str(h.github))), S_GitHub, TRUE))>>
                ELSE <<>>)
        parts ==
            <<Tpl("\\begin{center}"),
              Tpl("    \\textbf{\\Huge \\scshape ") \o Field(esc(to_str(h.name)))
                \o Tpl("} \\\\ \\vspace{4pt}"),
              Tpl("    \\small "),
              Join(Tpl(" \n    $|$ \n    "), contact_chunks),
              Tpl("\\end{center}"),
              <<>> >>
    IN  Ok(Join(NL, parts))

\* Bullet lines that would come last bullet first.
bullet_lines_reversed(indent, bullets) ==
    [i \in DOMAIN bullets |->
        Tpl(indent) \o Tpl("\\resumeItem{")
        \o Field(esc(bullets[Len(bullets) + 1 - i].text)) \o Tpl("}")]

\* "for bp in bullets": one \resumeItem line for each bullet
bullet_lines(indent, bullets) ==
    [i \in DOMAIN bullets |->
        Tpl(indent) \o Tpl("\\resumeItem{") \o Field(esc(bullets[i].text)) \o Tpl("}")]

\* A build_skills that would write the heading of a block without groups.
build_skills_always(skills) ==
    IF ~skills.present THEN Ok(<<>>)
    ELSE Ok(Join(NL, <<Tpl("\\section{Skills}"),
                       Tpl(" \\begin{itemize}[leftmargin=0.15in, label={}]"),
                       Tpl(" \\end{itemize}"),
                       <<>> >>))

build_skills(skills) ==
    IF ~skills.present \/ skills.items = <<>> THEN Ok(<<>>)
    ELSE LET inner_lines ==
                [i \in DOMAIN skills.items |->
                    Tpl("     \\textbf{") \o Field(esc(skills.items[i].name))
                    \o Tpl("}{: ")
                    \o Field(esc(Join(S_comma, List(skills.items[i].skills))))
                    \o Tpl("} \\\\")]
             lines ==
                <<Tpl("\\section{Skills}"),
                  Tpl(" \\begin{itemize}[leftmargin=0.15in, label={}]"),
                  Tpl("    \\small{\\item{"),
                  Join(NL, inner_lines),
                  Tpl("    }}"),
                  Tpl(" "),
                  Tpl(" \\end{itemize}"),
                  <<>> >>
         IN  Ok(Join(NL, lines))

\* The lines of one experience: its heading and its bullets.  An entry
\* has an icon if a client has set the attribute; getattr gives None, here
\* "", if not.
experience_lines(e) ==
    LET position == e.position
        company == e.company
        explicit == IF "icon" \in DOMAIN e THEN e.icon ELSE ""
        icon == IF explicit # "" THEN explicit ELSE maybe_icon_from_role(position)
        icon_prefix == blue_icon(icon)
        role == href(NoneObj, position, TRUE)
        left_top == icon_prefix \o Tpl("\\textbf{") \o role.v \o Tpl("}")
        right_top == Strip(Field(esc(Str(e.start_date))) \o Tpl(" -- ")
                           \o Field(esc(Str(e.end_date))))
        left_bottom == href(NoneObj, company, FALSE)
        right_bottom == Field(esc(<<>>))
        heading == Tpl("\\resumeSubheading{") \o left_top \o Tpl("}{") \o right_top
                   \o Tpl("}{") \o left_bottom.v \o Tpl("}{") \o right_bottom \o Tpl("}")
    IN  Call(<<role, left_bottom>>,
             Ok(<<heading>>
                \o (IF e.description # <<>>
                    THEN <<Tpl("      \\resumeItemListStart")>>
                         \o bullet_lines("        ", e.description)
                         \o <<Tpl("      \\resumeItemListEnd")>>
                    ELSE <<>>)))

build_experience(exp) ==
    IF ~exp.present \/ exp.items = <<>> THEN Ok(<<>>)
    ELSE LET entries == [i \in DOMAIN exp.items |-> experience_lines(exp.items[i])]
             lines ==
                <<Tpl("\\section{Experience}"), <<>>, Tpl("\\resumeSubHeadingListStart")>>
                \o Concat(Values(entries))
                \o <<Tpl("\\resumeSubHeadingListEnd"), <<>> >>
         IN  Call(entries, Ok(Join(NL, lines)))

\* An icon for a project that would be the entry's own or none.
project_icon_own(p) == IF "icon" \in DOMAIN p THEN p.icon ELSE ""

\* getattr(p, "icon", None) or "ShareSquare": the entry's own icon if a
\* client has set one, the share glyph if not.
project_icon(p) ==
    LET explicit == IF "icon" \in DOMAIN p THEN p.icon ELSE ""
    IN  IF explicit # "" THEN explicit ELSE "ShareSquare"

\* The lines of one project.
project_lines(p) ==
    LET name == p.name
        link == p.link
        skills == Join(S_comma, p.skills)
        icon == project_icon(p)
        label == href(link, name, TRUE)
        left == Tpl("{\\textcolor{vibrantblue}") \o Tpl(fa(icon)) \o Tpl(" \\hspace{0.5mm} ")
                \o Tpl("\\textbf{") \o label.v \o Tpl("}} ")
                \o Tpl("$|$ ")
                \o Tpl("\\emph{\\textbf{") \o Field(esc(skills)) \o Tpl("}}")
    IN  Call(<<label>>,
             Ok(<<Tpl("      \\resumeSubHeadingListStart"),
                  Tpl("\\resumeProjectHeading{") \o left \o Tpl("}{}")>>
                \o (IF p.description # <<>>
                    THEN <<Tpl("          \\resumeItemListStart")>>
                         \o bullet_lines("            ", p.description)
                         \o <<Tpl("          \\resumeItemListEnd")>>
                    ELSE <<>>)
                \o <<Tpl("    \\resumeSubHeadingListEnd"), <<>> >>))

build_projects(proj_sec) ==
    IF ~proj_sec.present \/ proj_sec.items = <<>> THEN Ok(<<>>)
    ELSE LET entries == [i \in DOMAIN proj_sec.items |-> project_lines(proj_sec.items[i])]
             out == <<Tpl("\\section{Projects}"), <<>> >> \o Concat(Values(entries))
         IN  Call(entries, Ok(Join(NL, out)))

\* str(x) of a float x that is a number of tenths: 39 is "3.9"
RECURSIVE IntStr(_)
IntStr(n) == IF n < 10 THEN <<Digits[n + 1]>> ELSE IntStr(n \div 10) \o <<Digits[(n % 10) + 1]>>

FloatStr(gpa) == IntStr(gpa.float \div 10) \o <<".">> \o IntStr(gpa.float % 10)

\* The line of one education.
education_line(edu) ==
    LET school == edu.school
        when == Field(esc(Str(edu.start_date)))
        degree == edu.degree
        gpa == edu.gpa
        awards == edu.awards
        tail_bits ==
            (IF Truthy(degree) THEN <<degree>> ELSE <<>>)
            \o (IF awards # <<>> THEN <<Join(S_comma, awards)>> ELSE <<>>)
            \o (IF gpa # NoneObj
                THEN <<IF ~Contains(FloatStr(gpa), S_GPA)
                       THEN FloatStr(gpa) \o <<" ">> \o S_GPA ELSE FloatStr(gpa)>>
                ELSE <<>>)
        third == Join(S_comma, SelectSeq(tail_bits, LAMBDA bit : bit # <<>>))
        label == href(NoneObj, school, TRUE)
        left_top == Tpl("{\\textcolor{vibrantblue}\\faGraduationCap\\hspace{0.5mm} ")
                    \o Tpl("\\textbf{") \o label.v \o Tpl("}}")
    IN  Call(<<label>>,
             Ok(Tpl("\\resumeSubheading{") \o left_top \o Tpl("}{") \o when \o Tpl("}{")
                \o Field(esc(third)) \o Tpl("}{") \o Field(esc(<<>>)) \o Tpl("}")))

build_education(edu_sec) ==
    IF ~edu_sec.present \/ edu_sec.items = <<>> THEN Ok(<<>>)
    ELSE LET entries == [i \in DOMAIN edu_sec.items |-> education_line(edu_sec.items[i])]
             lines ==
                <<Tpl("%-----------EDUCATION-----------"),
                  Tpl("\\section{Education}"),
                  Tpl("  \\resumeSubHeadingListStart")>>
                \o Values(entries)
                \o <<Tpl("  \\resumeSubHeadingListEnd"), <<>> >>
         IN  Call(entries, Ok(Join(NL, lines)))

\* A resume_to_latex that would put the projects before the experience.
resume_to_latex_reordered(r) ==
    LET header == build_header(r.header)
        skills == build_skills(r.skills)
        experience == build_experience(r.experience)
        projects == build_projects(r.projects)
        education == build_education(r.education)
        built_parts == <<header, skills, projects, experience, education>>
        parts == <<LATEX_PREAMBLE>> \o Values(built_parts) \o <<LATEX_END>>
    IN  Call(built_parts, Ok(Join(NL, SelectSeq(parts, LAMBDA p : p # <<>>))))

resume_to_latex(r) ==
    LET header == build_header(r.header)
        skills == build_skills(r.skills)
        experience == build_experience(r.experience)
        projects == build_projects(r.projects)
        education == build_education(r.education)
        built_parts == <<header, skills, experience, projects, education>>
        parts == <<LATEX_PREAMBLE>> \o Values(built_parts) \o <<LATEX_END>>
    IN  Call(built_parts, Ok(Join(NL, SelectSeq(parts, LAMBDA p : p # <<>>))))

\* load_json_and_generate_latex on a record, in a process with this hash
\* seed, when the clock shows t.
load_json_and_generate_latex(d, seed, t, tick) ==
    LET r == from_dict(d, seed, t, tick)
    IN  Call(<<r>>, resume_to_latex(r.v))

---------------------------------------------------------------------------
(* Construction by a client, as the tests do it *)

\* V(x) for a field the client has, None for one it has not.
Given(V(_), x) == IF Get(x) = None THEN Ok(NoneObj) ELSE V(x)

header_direct(h) ==
    LET name == IF h.name = Missing THEN Raise("TypeError") ELSE Ok(h.name)
        email == Given(Email, h.email)
        number == Given(PhoneNumber, h.number)
        linkedin == Given(LinkedIn, h.linkedin)
        portfolio == Given(Website, h.portfolio)
        github == Given(GitHub, h.github)
    IN  Call(<<name, email, number, linkedin, portfolio, github>>,
             Header(name.v, email.v, number.v, linkedin.v, portfolio.v, github.v))

skill_type_direct(st, seed) == SkillType(st.name, PySet(st.skills, seed))

\* "e.icon = name" by a client that has an icon for the entry it made
set_icon(e, name) ==
    [f \in DOMAIN e \cup {"icon"} |-> IF f = "icon" THEN name ELSE e[f]]

\* The entry a client made, with the icon of its parts set if they have one
\* and the entry was made.
with_icon(parts, made) ==
    IF made.ok /\ "icon" \in DOMAIN parts THEN Ok(set_icon(made.v, parts.icon)) ELSE made

\* Experience(...) by a client, which then sets the icon if it has one.
experience_direct(exp, t, tick) ==
    LET description == bullets_from_dict(exp.description)
        start_date == Date(exp.start_date)
        end_date == Given(Date, exp.end_date)
    IN  with_icon(exp,
            Call(description \o <<start_date, end_date>>,
                 Experience(exp.position, exp.company, Values(description),
                            start_date.v, end_date.v, t, tick)))

\* Project(...) by a client, which then sets the icon if it has one.
project_direct(proj) ==
    LET description == bullets_from_dict(proj.description)
        link == Given(Website, proj.link)
    IN  with_icon(proj,
            Call(description \o <<link>>,
                 Project(proj.name, proj.skills, Values(description), link.v)))

education_direct(edu, t, tick) ==
    LET start_date == Date(edu.start_date)
    IN  Call(<<start_date>>,
             Education(edu.school, edu.degree, start_date.v, edu.awards, edu.gpa, t, tick))

\* A section built from its list of entries; none without a list.
section_direct(sec, entries, Section(_)) ==
    IF sec.kind # "dict" THEN Ok(NoSection)
    ELSE Call(entries, Section(Values(entries)))

\* The Resume a client assembles from the parts p by calling the validators
\* and constructors itself, in a process with this hash seed, when the clock
\* shows t.
make_resume(p, seed, t, tick) ==
    LET header == header_direct(p.header)
        skills == section_direct(p.skills,
            [i \in DOMAIN p.skills.list |-> skill_type_direct(p.skills.list[i], seed)],
            SkillSection)
        experience == section_direct(p.experience,
            [i \in DOMAIN p.experience.list |->
                experience_direct(p.experience.list[i], t, tick)],
            ExperienceSection)
        projects == section_direct(p.projects,
            [i \in DOMAIN p.projects.list |-> project_direct(p.projects.list[i])],
            ProjectSection)
        education == section_direct(p.education,
            [i \in DOMAIN p.education.list |->
                education_direct(p.education.list[i], t, tick)],
            EducationSection)
    IN  Call(<<header, skills, experience, projects, education>>,
             Ok(Resume(header.v, skills.v, experience.v, projects.v, education.v)))

---------------------------------------------------------------------------
(* The field values that the model draws its records from *)

T_name ==
    <<"A", " ", "&", " ", "B">>
T_email ==
    <<"a", "_", "b", "@", "c", ".", "d", "e">>
T_email_bad ==
    <<"a", "@", "b">>
T_phone ==
    <<"1", "2", "3", "4", "5", "6", "7", "8", "9", "0">>
T_phone_bad ==
    <<"1", "2", "3", "4", "5">>
T_linkedin ==
    <<"h", "t", "t", "p", "s", ":", "/", "/", "w", "w", "w", ".", 
    "l", "i", "n", "k", "e", "d", "i", "n", ".", "c", "o", "m", "/", "i", "n", "/", "a">>
T_linkedin_bad ==
    <<"h", "t", "t", "p", "s", ":", "/", "/", "a", ".", "b", "c", "/", "i", "n", "/", "a">>
T_site ==
    <<"a", "-", "b", ".", "i", "o", "/", "x", "_", "y", "?", "z", "=", "1", "&", "w", "=", "2">>
T_site_bad ==
    <<"n", "o", "d", "o", "t">>
T_github ==
    <<"h", "t", "t", "p", "s", ":", "/", "/", "g", "i", "t", "h", "u", "b", ".", "c", "o", "m", "/", "a">>
T_github_bad ==
    <<"g", "i", "t", "h", "u", "b", ".", "c", "o", "m", "/", "a">>
T_Lang ==
    <<"L", "a", "n", "g">>
T_Tools ==
    <<"T", "o", "o", "l", "s">>
T_Cpp ==
    <<"C", "+", "+">>
T_Py ==
    <<"P", "y">>
T_C ==
    <<"C">>
T_RnD ==
    <<"R", "&", "D", "_", "5", "0", "%">>
T_Dev ==
    <<"D", "e", "v">>
T_Co ==
    <<"C", "o">>
T_DidX ==
    <<"D", "i", "d", " ", "X">>
T_Site ==
    <<"S", "i", "t", "e">>
T_Uni ==
    <<"U", "n", "i">>
T_BSc ==
    <<"B", "S", "c">>
T_Dean ==
    <<"D", "e", "a", "n">>
D_2022 ==
    <<"0", "1", "-", "0", "1", "-", "2", "0", "2", "2">>
D_2023 ==
    <<"0", "1", "-", "0", "1", "-", "2", "0", "2", "3">>
D_today ==
    <<"0", "2", "-", "0", "1", "-", "2", "0", "2", "3">>
D_tomorrow ==
    <<"0", "3", "-", "0", "1", "-", "2", "0", "2", "3">>
D_bad ==
    <<"2", "0", "2", "3", "-", "0", "6">>
T_Present ==
    <<"P", "r", "e", "s", "e", "n", "t">>

\* strings of n times the letter x
Xs(n) == [i \in 1..n |-> "x"]

\* The clock when the program starts: the first tick after the midnight of
\* 02-01-2023.
ClockStart == Strptime(D_today).v + 1

\* How far the clock runs: it stops MaxTicks after ClockStart.
MaxTicks == 2

\* The hash seeds a process may start with: 0..MaxSeed.
MaxSeed == 2
Seeds == 0..MaxSeed

HeaderBase ==
    [name |-> T_name, email |-> None, number |-> None, linkedin |-> None,
     portfolio |-> None, github |-> None]

HeaderFull ==
    [name |-> T_name, email |-> T_email, number |-> T_phone,
     linkedin |-> T_linkedin, portfolio |-> T_site, github |-> T_github]

\* the header of a record without the key "header"
HeaderAbsent ==
    [name |-> Missing, email |-> Missing, number |-> Missing,
     linkedin |-> Missing, portfolio |-> Missing, github |-> Missing]

\* Texts around a telephone number of ten digits: one too long, one too
\* short, with a letter, a sign, a space or a line end before or after.
PhoneTexts ==
    {T_phone \o <<"1">>, Front(T_phone), Front(T_phone) \o <<"a">>,
     <<"+">> \o Front(T_phone), <<" ">> \o T_phone, T_phone \o <<" ">>,
     <<"\n">> \o T_phone, T_phone \o <<"\n">>, T_phone \o <<"\n", "\n">>}

HeaderInputs ==
    {HeaderBase, HeaderFull, HeaderAbsent}
    \cup {[HeaderBase EXCEPT !.name = x] : x \in {Missing, None, <<>>}}
    \cup {[HeaderBase EXCEPT !.email = x] : x \in {T_email, T_email_bad, <<>>}}
    \cup {[HeaderBase EXCEPT !.number = x] : x \in {T_phone, T_phone_bad, <<>>}}
    \cup {[HeaderBase EXCEPT !.number = x] : x \in PhoneTexts}
    \cup {[HeaderBase EXCEPT !.linkedin = x] : x \in {T_linkedin, T_linkedin_bad}}
    \cup {[HeaderBase EXCEPT !.portfolio = x] : x \in {T_site, T_site_bad}}
    \cup {[HeaderBase EXCEPT !.github = x] : x \in {T_github, T_github_bad}}

SkillLang == [name |-> T_Lang, skills |-> <<T_Cpp, T_Py>>]
SkillTools == [name |-> T_Tools, skills |-> <<T_Py, T_C>>]

SkillLists ==
    {<<>>, <<SkillLang>>, <<SkillTools>>, <<SkillLang, SkillTools>>,
     <<[name |-> T_Lang, skills |-> <<>>]>>,
     <<[name |-> <<>>, skills |-> <<T_RnD, T_RnD>>]>>}

ExperienceBase ==
    [position |-> T_Dev, company |-> T_Co, description |-> <<[text |-> T_DidX]>>,
     start_date |-> D_2022, end_date |-> D_2023]

ExperienceInputs ==
    {ExperienceBase}
    \cup {[ExperienceBase EXCEPT !.end_date = x] :
            x \in {None, <<>>, S_present, T_Present, D_2022, D_bad}}
    \cup {[ExperienceBase EXCEPT !.start_date = x, !.end_date = y] :
            x \in {S_present, D_today, D_tomorrow, D_bad},
            y \in {None, D_tomorrow}}
    \cup {[ExperienceBase EXCEPT !.position = x] : x \in {None, <<>>}}
    \cup {[ExperienceBase EXCEPT !.company = <<>>]}
    \cup {[ExperienceBase EXCEPT !.description = x] :
            x \in {<<>>, <<[text |-> <<>>]>>, <<[text |-> T_DidX], [text |-> T_RnD]>>,
                   <<[text |-> Xs(MaxBulletLen)]>>, <<[text |-> Xs(MaxBulletLen + 1)]>>,
                   <<[text |-> <<"x">>]>>,
                   <<[text |-> Xs(OldBulletLen)]>>, <<[text |-> Xs(OldBulletLen + 1)]>>}}

ExperienceLists ==
    {<<>>, <<ExperienceBase, [ExperienceBase EXCEPT !.end_date = None]>>}
    \cup {<<e>> : e \in ExperienceInputs}

ProjectBase ==
    [name |-> T_Site, skills |-> <<T_Py, T_RnD>>,
     description |-> <<[text |-> T_DidX]>>, link |-> None]

ProjectInputs ==
    {ProjectBase}
    \cup {[ProjectBase EXCEPT !.link = x] : x \in {T_site, T_site_bad, <<>>}}
    \cup {[ProjectBase EXCEPT !.name = <<>>],
          [ProjectBase EXCEPT !.skills = <<>>],
          [ProjectBase EXCEPT !.description = <<>>]}

ProjectLists ==
    {<<>>, <<ProjectBase, [ProjectBase EXCEPT !.link = T_site]>>}
    \cup {<<p>> : p \in ProjectInputs}

EducationBase ==
    [school |-> T_Uni, degree |-> T_BSc, start_date |-> D_2022,
     awards |-> <<T_Dean>>, gpa |-> Float(39)]

EducationInputs ==
    {EducationBase}
    \cup {[EducationBase EXCEPT !.gpa = x] :
            x \in {NoneObj, Float(-1), Float(0), Float(40), Float(41)}}
    \cup {[EducationBase EXCEPT !.start_date = x] :
            x \in {S_present, D_today, D_tomorrow, D_bad}}
    \cup {[EducationBase EXCEPT !.awards = <<>>],
          [EducationBase EXCEPT !.degree = <<>>],
          [EducationBase EXCEPT !.school = None]}

EducationLists ==
    {<<>>, <<EducationBase, [EducationBase EXCEPT !.gpa = NoneObj]>>}
    \cup {<<e>> : e \in EducationInputs}

\* The forms a section takes in a record.
Sections(lists) ==
    {NullSection, [kind |-> "empty", list |-> <<>>], [kind |-> "other", list |-> <<>>]}
    \cup {DictSection(l) : l \in lists}

\* the record {}
EmptyRecord ==
    [header |-> HeaderAbsent, skills |-> NullSection, experience |-> NullSection,
     projects |-> NullSection, education |-> NullSection]

RecordBase == [EmptyRecord EXCEPT !.header = HeaderBase]

\* The records: every choice of present and absent sections, and one part
\* at a time taking each of its forms.
RecordInputs ==
    {[header |-> h, skills |-> s, experience |-> e, projects |-> p, education |-> d] :
        h \in {HeaderBase, HeaderFull},
        s \in {NullSection, DictSection(<<SkillLang, SkillTools>>)},
        e \in {NullSection, DictSection(<<ExperienceBase>>)},
        p \in {NullSection, DictSection(<<ProjectBase>>)},
        d \in {NullSection, DictSection(<<EducationBase>>)}}
    \cup {[RecordBase EXCEPT !.header = h] : h \in HeaderInputs}
    \cup {[RecordBase EXCEPT !.skills = x] : x \in Sections(SkillLists)}
    \cup {[RecordBase EXCEPT !.experience = x] : x \in Sections(ExperienceLists)}
    \cup {[RecordBase EXCEPT !.projects = x] : x \in Sections(ProjectLists)}
    \cup {[RecordBase EXCEPT !.education = x] : x \in Sections(EducationLists)}

---------------------------------------------------------------------------
(* The data model at work: a client constructs a Resume, saves it as a     *)
(* record, reads a record, and has from_dict rebuild a Resume from it      *)

\* No object yet.
NoObject ==
    [made |-> FALSE, res |-> Raise("none"), parts |-> EmptyRecord,
     seed |-> 0, t |-> 0, tick |-> 0]

\* What a construction at clock t, in a process with this seed, came to.
Object(res, parts, seed, t, tick) ==
    [made |-> TRUE, res |-> res, parts |-> parts, seed |-> seed, t |-> t, tick |-> tick]

\* No record yet.
NoData == [origin |-> "none", d |-> EmptyRecord]

\* The clock may move on by one tick between two reads within a call.
Ticks == {0, 1}
ClockEnd == ClockStart + MaxTicks

\* No call of esc yet.
NoArgs == [a |-> <<>>, b |-> <<>>]
NoOut == [made |-> FALSE, a |-> <<>>, b |-> <<>>, ab |-> <<>>]

\* No dialog is open; an open one has a BulletsEditor with its bullets.
NoDialog == [open |-> FALSE, bullets |-> <<>>]

\* ResumeMakerApp.__init__: the sections in the order the window lists them
section_order == <<"Header", "Skills", "Experience", "Projects", "Education">>

\* ResumeMakerApp.__init__: empty header fields and empty lists.
NoEntries ==
    [name |-> <<>>, email |-> <<>>, phone |-> <<>>, linkedin |-> <<>>,
     portfolio |-> <<>>, github |-> <<>>,
     skill_types |-> <<>>, experiences |-> <<>>, projects |-> <<>>, educations |-> <<>>,
     section_order |-> section_order, dialog |-> NoDialog]

\* on_save has not just run.
NotBuilt == [made |-> FALSE, res |-> Raise("none"), t |-> 0, tick |-> 0]

\* The variables of the renderer, of the user interface and of esc stay as
\* they start while the data model is exercised.
Idle == <<latex, ui, built, escArgs, escOut>>

Init ==
    /\ now = ClockStart
    /\ hashSeed \in Seeds
    /\ data = NoData
    /\ resume = NoObject
    /\ loaded = NoObject
    /\ latex = <<>>
    /\ ui = NoEntries
    /\ built = NotBuilt
    /\ escArgs = NoArgs
    /\ escOut = NoOut

\* Time passes.
Tick ==
    /\ now < ClockEnd
    /\ now' = now + 1
    /\ UNCHANGED <<hashSeed, data, resume, loaded>>
    /\ UNCHANGED Idle

\* A run follows one Resume or one record from its making on.
Fresh == ~resume.made /\ data.origin = "none" /\ ~escOut.made

\* A client builds a Resume from parts, validators first, as
\* make_sample_resume does.
ConstructFrom(inputs) ==
    /\ Fresh
    /\ \E p \in inputs, tick \in Ticks :
        /\ now + tick <= ClockEnd
        /\ resume' = Object(make_resume(p, hashSeed, now, tick), p, hashSeed, now, tick)
        /\ now' = now + tick
        /\ UNCHANGED <<hashSeed, data, loaded>>
        /\ UNCHANGED Idle

Construct == ConstructFrom(RecordInputs)

\* save_json: the record of the Resume in hand, json.dump(self.to_dict()).
save_json ==
    /\ resume.made
    /\ resume.res.ok
    /\ data' = [origin |-> "to_dict", d |-> Resume_to_dict(resume.res.v)]
    /\ loaded' = NoObject
    /\ UNCHANGED <<now, hashSeed, resume>>
    /\ UNCHANGED Idle

\* json.load of a file that a person or another tool wrote.
json_load_from(inputs) ==
    /\ Fresh
    /\ \E d \in inputs :
        /\ data' = [origin |-> "file", d |-> d]
        /\ UNCHANGED <<now, hashSeed, resume, loaded>>
        /\ UNCHANGED Idle

\* Records that lack a key of an entry, or hold null for a date: what a
\* file may hold and no Resume gives.
FileRecords ==
    {[RecordBase EXCEPT !.education = DictSection(<<[EducationBase EXCEPT !.school = Missing]>>)],
     [RecordBase EXCEPT !.experience = DictSection(<<[ExperienceBase EXCEPT !.position = Missing]>>)],
     [RecordBase EXCEPT !.experience = DictSection(<<[ExperienceBase EXCEPT !.start_date = None]>>)]}

json_load == json_load_from(RecordInputs \cup FileRecords)

\* Resume.from_dict(data)
Load ==
    /\ data.origin # "none"
    /\ \E tick \in Ticks :
        /\ now + tick <= ClockEnd
        /\ loaded' = Object(from_dict(data.d, hashSeed, now, tick), data.d,
                            hashSeed, now, tick)
        /\ now' = now + tick
        /\ UNCHANGED <<hashSeed, data, resume>>
        /\ UNCHANGED Idle

Next ==
    \/ Tick
    \/ Construct
    \/ save_json
    \/ json_load
    \/ Load

Spec == Init /\ [][Next]_vars

---------------------------------------------------------------------------
(* Properties of the data model *)

\* The constructions made so far, and the Resumes that came of them.
Made == {o \in {resume, loaded} : o.made}
Held == {o \in Made : o.res.ok}

\* The clock has not moved since the construction of o returned.
JustMade(o) == now = o.t + o.tick

\* C1: round-trip law.  For every Resume r that was constructed,
\* Resume.from_dict(r.to_dict()) succeeds and gives a Resume whose
\* to_dict() equals r.to_dict().
C1_RoundTrip ==
    (data.origin = "to_dict" /\ loaded.made) =>
        /\ loaded.res.ok
        /\ Resume_to_dict(loaded.res.v) = data.d

\* A round trip in one process, with the clock standing still, that gives
\* the skills of a group back in another order.
C1_SkillsReordered ==
    /\ data.origin = "to_dict" /\ loaded.made /\ loaded.res.ok
    /\ loaded.seed = resume.seed /\ loaded.t = resume.t + resume.tick /\ loaded.tick = 0
    /\ Resume_to_dict(loaded.res.v).skills # data.d.skills

\* C2: reconstruction re-validates.  On any record, Resume.from_dict fails
\* exactly when building the same header, entries and value objects from
\* the record's raw field values fails.
C2_Revalidates ==
    (data.origin = "file" /\ loaded.made) =>
        (loaded.res.ok <=> make_resume(data.d, loaded.seed, loaded.t, loaded.tick).ok)

\* from_dict accepts a record whose header has the email "", which Email
\* rejects.
C2_EmptyEmailLoaded ==
    /\ data.origin = "file" /\ loaded.made /\ loaded.res.ok
    /\ data.d.header.email = <<>>
    /\ ~Email(data.d.header.email).ok

\* C3: every constructed Experience has its start strictly before its end
\* and not after now, "present" being the clock's reading; stated of the
\* moment at which the construction returns.
C3_DateOrder ==
    \A o \in Held : JustMade(o) =>
        \A i \in DOMAIN o.res.v.experience.items :
            LET e == o.res.v.experience.items[i]
            IN  /\ to_datetime(e.start_date, now) < to_datetime(e.end_date, now)
                /\ to_datetime(e.start_date, now) <= now

\* An Experience from "present" to "present" has been constructed.
C3_PresentToPresent ==
    \E o \in Held : \E i \in DOMAIN o.res.v.experience.items :
        /\ o.res.v.experience.items[i].start_date.value = S_present
        /\ o.res.v.experience.items[i].end_date.value = S_present

\* C4: no Resume, constructed directly or by from_dict, has a present
\* experience, projects or education section with no entries.
C4_SectionsNonEmpty ==
    \A o \in Held :
        \A sec \in {o.res.v.experience, o.res.v.projects, o.res.v.education} :
            sec.present => sec.items # <<>>

\* from_dict has built a Resume with an experience section of no entries.
C4_EmptySectionLoaded ==
    /\ loaded.made /\ loaded.res.ok
    /\ loaded.res.v.experience.present
    /\ loaded.res.v.experience.items = <<>>

\* The parts name a skill group without skills, an experience without
\* bullets, or a project without skills or without bullets.
EmptyChild(parts) ==
    \/ \E i \in DOMAIN SectionList(parts.skills) :
            SectionList(parts.skills)[i].skills = <<>>
    \/ \E i \in DOMAIN SectionList(parts.experience) :
            SectionList(parts.experience)[i].description = <<>>
    \/ \E i \in DOMAIN SectionList(parts.projects) :
            \/ SectionList(parts.projects)[i].skills = <<>>
            \/ SectionList(parts.projects)[i].description = <<>>

\* C5: entry-level child collections are never empty.  A construction from
\* parts with an empty skill set, an empty description list or an empty
\* project skills list fails with a validation error, and every Resume
\* held has none of them empty.
C5_ChildCollections ==
    /\ \A o \in Made :
            EmptyChild(o.parts) => ~o.res.ok /\ o.res.err = "ValueError"
    /\ \A o \in Held :
            /\ \A i \in DOMAIN o.res.v.skills.items :
                    o.res.v.skills.items[i].skills.elems # {}
            /\ \A i \in DOMAIN o.res.v.experience.items :
                    o.res.v.experience.items[i].description # <<>>
            /\ \A i \in DOMAIN o.res.v.projects.items :
                    /\ o.res.v.projects.items[i].skills # <<>>
                    /\ o.res.v.projects.items[i].description # <<>>

\* A skill group without skills has been refused, by the constructor and
\* by from_dict alike.
C5_Refused ==
    /\ resume.made /\ ~resume.res.ok
    /\ \E i \in DOMAIN SectionList(resume.parts.skills) :
            SectionList(resume.parts.skills)[i].skills = <<>>

\* C6: a Header always has a non-empty name; from_dict fails on a record
\* without a header, or without a name in it, or with an empty name.
C6_HeaderName ==
    \A o \in Held : Truthy(o.res.v.header.name)

\* from_dict has built a Resume from a record without the key "header".
C6_NoHeaderLoaded ==
    /\ loaded.made /\ loaded.res.ok
    /\ data.d.header = HeaderAbsent

---------------------------------------------------------------------------
(* The converter at work: esc is called on texts, Resumes and records are  *)
(* rendered, and the program is started again with another hash seed      *)

T_all ==
    <<"&", "%", "$", "#", "_", "{", "}", "~", "^", "\\">>

\* Positions that the keyword rules for the icon bear on, one for each
\* keyword and some that two rules match.
T_QA_Tester == <<"Q", "A", " ", "T", "e", "s", "t", "e", "r">>
T_AUTOMATION == <<"A", "U", "T", "O", "M", "A", "T", "I", "O", "N">>
T_EMG == <<"E", "M", "G">>
T_Sensor == <<"S", "e", "n", "s", "o", "r">>
T_Bio_Lead == <<"B", "i", "o", " ", "L", "e", "a", "d">>
T_Hackathon == <<"H", "a", "c", "k", "a", "t", "h", "o", "n">>
T_Founder == <<"F", "o", "u", "n", "d", "e", "r">>
T_Team_Lead == <<"T", "e", "a", "m", " ", "L", "e", "a", "d">>
T_Karate_Teacher == <<"K", "a", "r", "a", "t", "e", " ", "T", "e", "a", "c", "h", "e", "r">>
T_Martial == <<"M", "a", "r", "t", "i", "a", "l">>
T_Teacher == <<"T", "e", "a", "c", "h", "e", "r">>
T_Tutor == <<"T", "u", "t", "o", "r">>
T_Assistant == <<"A", "s", "s", "i", "s", "t", "a", "n", "t">>
T_Contest_Lead == <<"C", "o", "n", "t", "e", "s", "t", " ", "L", "e", "a", "d">>
RolePositions ==
    {<<T_Karate_Teacher, T_QA_Tester, T_AUTOMATION, T_EMG, T_Sensor, T_Bio_Lead, T_Hackathon>>,
     <<T_Founder, T_Team_Lead, T_Martial, T_Teacher, T_Tutor, T_Assistant, T_Contest_Lead>>}

\* Names of icons a client sets: two that fa knows, one it does not, "".
IconNames == <<"Dragon", "GraduationCap", "Rocket", "">>

\* The lists of experiences that are rendered for their icons: one entry
\* for each position, and one for each icon set on an entry.
IconExperiences ==
    {[i \in DOMAIN l |-> [ExperienceBase EXCEPT !.position = l[i]]] : l \in RolePositions}
    \cup {[i \in DOMAIN IconNames |->
                set_icon([ExperienceBase EXCEPT !.position = x], IconNames[i])] :
            x \in {T_Dev, T_Team_Lead}}

\* Two experiences, the first with two bullets.
TwoExperiences ==
    <<[ExperienceBase EXCEPT !.description = <<[text |-> T_DidX], [text |-> T_RnD]>>],
      [ExperienceBase EXCEPT !.position = T_Tutor, !.description = <<[text |-> T_all]>>]>>

\* Projects: one with no icon and two bullets, then one for each icon set.
IconProjects ==
    <<[ProjectBase EXCEPT !.skills = <<T_Py, T_all>>,
                          !.description = <<[text |-> T_DidX], [text |-> T_RnD]>>],
      set_icon([ProjectBase EXCEPT !.name = T_Tutor, !.skills = <<T_RnD>>], "Dragon")>>
    \o [i \in DOMAIN IconNames |-> set_icon(ProjectBase, IconNames[i])]

\* Lists of awards, an award that is the empty string among them.
AwardLists ==
    << <<>>, <<T_Dean>>, <<T_Dean, T_RnD>>, <<T_Dean, <<>> >>, << <<>>, T_Dean>> >>

\* The lists of educations that are rendered for their third field: for
\* each GPA, one entry for each list of awards.
TailEducations ==
    {[i \in DOMAIN AwardLists |-> [EducationBase EXCEPT !.awards = AwardLists[i], !.gpa = g]] :
        g \in {NoneObj, Float(0), Float(39), Float(40)}}

\* The records and parts that are rendered.
RenderInputs ==
    {[header |-> HeaderBase, skills |-> s, experience |-> e, projects |-> p, education |-> d] :
        s \in {NullSection, DictSection(<<SkillLang, SkillTools>>)},
        e \in {NullSection, DictSection(<<ExperienceBase>>)},
        p \in {NullSection, DictSection(<<ProjectBase>>)},
        d \in {NullSection, DictSection(<<EducationBase>>)}}
    \cup {[header |-> HeaderFull, skills |-> DictSection(<<SkillLang, SkillTools>>),
           experience |-> DictSection(<<ExperienceBase>>),
           projects |-> DictSection(<<ProjectBase>>),
           education |-> DictSection(<<EducationBase>>)],
          [RecordBase EXCEPT !.header = HeaderFull]}
    \cup {[RecordBase EXCEPT !.header = h] :
            h \in {HeaderAbsent, [HeaderBase EXCEPT !.name = T_all],
                   [HeaderBase EXCEPT !.number = T_phone],
                   [HeaderBase EXCEPT !.number = T_phone \o <<"\n">>],
                   [HeaderBase EXCEPT !.email = T_email, !.github = T_github],
                   [HeaderBase EXCEPT !.linkedin = T_linkedin, !.portfolio = T_site],
                   [HeaderFull EXCEPT !.number = None]}}
    \cup {[RecordBase EXCEPT !.skills = x] : x \in Sections(SkillLists)}
    \cup {[RecordBase EXCEPT !.experience = DictSection(<<e>>)] :
            e \in {[ExperienceBase EXCEPT !.end_date = None],
                   [ExperienceBase EXCEPT !.start_date = S_present, !.end_date = None],
                   [ExperienceBase EXCEPT !.description = <<[text |-> T_all]>>]}}
    \cup {[RecordBase EXCEPT !.experience = DictSection(es)] : es \in IconExperiences}
    \cup {[RecordBase EXCEPT !.experience = DictSection(TwoExperiences)]}
    \cup {[RecordBase EXCEPT !.projects = DictSection(IconProjects)]}
    \cup {[RecordBase EXCEPT !.projects = DictSection(<<p>>)] :
            p \in {[ProjectBase EXCEPT !.link = T_site],
                   [ProjectBase EXCEPT !.name = T_all]}}
    \cup {[RecordBase EXCEPT !.education = DictSection(<<e>>)] :
            e \in {[EducationBase EXCEPT !.gpa = NoneObj, !.awards = <<T_RnD, T_all>>]}}
    \cup {[RecordBase EXCEPT !.education = DictSection(es)] : es \in TailEducations}

\* How many times a run renders.
MaxRuns == 2

\* The longest a + b that esc is called on.
MaxEscLen == 2

\* The characters of those texts: the ten of the table, and a letter.
EscChars == {"&", "%", "$", "#", "_", "{", "}", "~", "^", "\\", "a"}

RECURSIVE TextsOf(_)
TextsOf(n) ==
    IF n = 0 THEN {<<>>}
    ELSE TextsOf(n - 1) \cup {Append(x, c) : x \in TextsOf(n - 1), c \in EscChars}

\* One rendering: by which function, of what, in a process with which
\* seed, whether there was a Resume to render, and what came back.
Run(by, parts, seed, valid, res) ==
    [by |-> by, parts |-> parts, seed |-> seed, valid |-> valid, res |-> res]

\* Nothing but the renderer's variables changes.
RenderOnly == UNCHANGED <<now, hashSeed, data, resume, loaded, ui, built, escArgs, escOut>>

ConstructDocument == ConstructFrom(RenderInputs)

ReadDocument == json_load_from(RenderInputs)

\* resume_to_latex(resume) on the Resume in hand
Export ==
    /\ resume.made
    /\ resume.res.ok
    /\ Len(latex) < MaxRuns
    /\ latex' = Append(latex, Run("resume_to_latex", resume.parts, hashSeed, TRUE,
                                  resume_to_latex(resume.res.v)))
    /\ RenderOnly

\* load_json_and_generate_latex(path) on the record
Generate ==
    /\ data.origin # "none"
    /\ Len(latex) < MaxRuns
    /\ \E tick \in Ticks :
        /\ now + tick <= ClockEnd
        /\ latex' = Append(latex,
                Run("load_json_and_generate_latex", data.d, hashSeed,
                    from_dict(data.d, hashSeed, now, tick).ok,
                    load_json_and_generate_latex(data.d, hashSeed, now, tick)))
        /\ now' = now + tick
        /\ UNCHANGED <<hashSeed, data, resume, loaded, ui, built, escArgs, escOut>>

\* The program, having rendered, is started again: a new process has its
\* own hash seed, and a client that builds its Resume from parts builds it
\* again.
Relaunch ==
    /\ latex # <<>>
    /\ Len(latex) < MaxRuns
    /\ \E seed \in Seeds \ {hashSeed}, tick \in Ticks :
        /\ now + tick <= ClockEnd
        /\ hashSeed' = seed
        /\ resume' = IF resume.made
                     THEN Object(make_resume(resume.parts, seed, now, tick),
                                 resume.parts, seed, now, tick)
                     ELSE resume
        /\ now' = IF resume.made THEN now + tick ELSE now
        /\ UNCHANGED <<data, loaded, latex, ui, built, escArgs, escOut>>

\* esc(a), esc(b) and esc(a + b) for two texts
Esc ==
    /\ Fresh
    /\ \E a \in TextsOf(MaxEscLen) :
        \E b \in TextsOf(MaxEscLen - Len(a)) :
            /\ escArgs' = [a |-> a, b |-> b]
            /\ escOut' = [made |-> TRUE, a |-> esc(a), b |-> esc(b), ab |-> esc(a \o b)]
            /\ UNCHANGED <<now, hashSeed, data, resume, loaded, latex, ui, built>>

\* esc(None) and esc("")
EscNone ==
    /\ Fresh
    /\ escArgs' = [a |-> None, b |-> <<>>]
    /\ escOut' = [made |-> TRUE, a |-> esc(None), b |-> esc(<<>>), ab |-> esc(<<>>)]
    /\ UNCHANGED <<now, hashSeed, data, resume, loaded, latex, ui, built>>

NextRender ==
    \/ ConstructDocument
    \/ ReadDocument
    \/ Export
    \/ Generate
    \/ Relaunch
    \/ Esc
    \/ EscNone

SpecRender == Init /\ [][NextRender]_vars

---------------------------------------------------------------------------
(* Properties of the converter *)

\* The renderings that had a Resume to render, and those that gave a text.
Rendered == {k \in DOMAIN latex : latex[k].valid}
Texts == {k \in Rendered : latex[k].res.ok}

\* A rendering is added after those there are, which stay as they are.
RunsKept ==
    [][/\ Len(latex') >= Len(latex)
       /\ \A k \in DOMAIN latex : latex'[k] = latex[k]]_vars

\* The newest rendering, if it gave a text.  Every rendering is the newest
\* in the state that it is added in, and stays as it is (RunsKept): what
\* holds of the newest in every state holds of every rendering.
Newest == {k \in Texts : k = Len(latex)}

\* C8: rendering is deterministic.  Two renderings by the same function of
\* the same Document give the same result, the order of the skill names
\* of each group included.
C8_Deterministic ==
    \A i \in Rendered : \A j \in Rendered :
        (latex[i].by = latex[j].by /\ latex[i].parts = latex[j].parts)
            => latex[i].res = latex[j].res

\* The same record has been rendered in two processes.
C8_TwoProcesses ==
    \E i \in Texts : \E j \in Texts :
        /\ latex[i].by = latex[j].by /\ latex[i].parts = latex[j].parts
        /\ latex[i].seed # latex[j].seed

\* The escape of each character of the table, as the text requires it.
FixedEscape ==
    ("&" :> <<"\\", "&">>) @@
    ("%" :> <<"\\", "%">>) @@
    ("$" :> <<"\\", "$">>) @@
    ("#" :> <<"\\", "#">>) @@
    ("_" :> <<"\\", "_">>) @@
    ("{" :> <<"\\", "{">>) @@
    ("}" :> <<"\\", "}">>) @@
    ("~" :> <<"\\", "t", "e", "x", "t", "a", "s", "c", "i", "i", "t", "i", "l", "d", "e", "{", "}">>) @@
    ("^" :> <<"\\", "t", "e", "x", "t", "a", "s", "c", "i", "i", "c", "i", "r", "c", "u", "m", "{", "}">>) @@
    ("\\" :> <<"\\", "t", "e", "x", "t", "b", "a", "c", "k", "s", "l", "a", "s", "h", "{", "}">>)

\* The text that the fixed escapes make of a text.
FixedEscapeOf(text) ==
    Concat([i \in DOMAIN text |->
        IF text[i] \in DOMAIN FixedEscape THEN FixedEscape[text[i]] ELSE <<text[i]>>])

\* The free text of a rendering is read as escaped text from place i on: a
\* backslash begins one of the fixed escapes, and no other character of the
\* table stands on its own.
RECURSIVE EscapedFrom(_, _)
EscapedFrom(chars, i) ==
    IF i > Len(chars) THEN TRUE
    ELSE IF chars[i] = "\\"
         THEN \E c \in DOMAIN FixedEscape :
                /\ i + Len(FixedEscape[c]) - 1 <= Len(chars)
                /\ SubSeq(chars, i, i + Len(FixedEscape[c]) - 1) = FixedEscape[c]
                /\ EscapedFrom(chars, i + Len(FixedEscape[c]))
    ELSE IF chars[i] \in DOMAIN FixedEscape THEN FALSE
    ELSE EscapedFrom(chars, i + 1)

\* Where the stretch of free text that holds place i ends.
RECURSIVE RunEnd(_, _)
RunEnd(out, i) ==
    IF i = Len(out) THEN i
    ELSE IF out[i + 1].o # "field" THEN i
    ELSE RunEnd(out, i + 1)

\* The stretches of free text in a rendering: from i to j.
FieldRuns(out) ==
    {<<i, RunEnd(out, i)>> :
        i \in {k \in DOMAIN out :
                 out[k].o = "field" /\ (k = 1 \/ out[k - 1].o # "field")}}

Chars(out, r) == [k \in 1..(r[2] - r[1] + 1) |-> out[r[1] + k - 1].s]

\* some stretch of free text of the rendering has this text in it
HasFieldText(out, text) ==
    \E r \in FieldRuns(out) : Contains(Chars(out, r), text)

\* the record has a skill group with this skill
HasSkill(parts, skill) ==
    \E i \in DOMAIN SectionList(parts.skills) :
        \E j \in DOMAIN SectionList(parts.skills)[i].skills :
            SectionList(parts.skills)[i].skills[j] = skill

S_RnD_escaped ==
    <<"R", "\\", "&", "D", "\\", "_", "5", "0", "\\", "%">>

\* C9: in the output of resume_to_latex every free-text value has passed
\* through esc: no character of the table that comes from a field stands
\* raw in the output outside the address of a link, and a skill name with
\* &, % and _ in it gives \&, \% and \_ on the skills line.
C9_FieldsEscaped ==
    \A k \in Newest :
        /\ \A r \in FieldRuns(latex[k].res.v) : EscapedFrom(Chars(latex[k].res.v, r), 1)
        /\ HasSkill(latex[k].parts, T_RnD) => HasFieldText(latex[k].res.v, S_RnD_escaped)

\* A Resume with the skill "R&D_50%" has been rendered.
C9_SpecialsRendered ==
    \E k \in Texts :
        /\ HasSkill(latex[k].parts, T_RnD)
        /\ HasFieldText(latex[k].res.v, S_RnD_escaped)

\* What esc gave is the fixed escape of each character of the table and
\* every other character itself, one after the other; esc(a + b) is
\* esc(a) + esc(b); esc(None) and esc("") are "".
EscPerCharacter ==
    escOut.made =>
        /\ escArgs.a = None => escOut.a = <<>> /\ escOut.b = <<>>
        /\ escArgs.a # None =>
            /\ escOut.ab = escOut.a \o escOut.b
            /\ Len(escArgs.a) = 1 =>
                    escOut.a = IF escArgs.a[1] \in DOMAIN FixedEscape
                               THEN FixedEscape[escArgs.a[1]] ELSE escArgs.a

\* Every rendering of a Resume gives a text.
RenderingNeverFails == \A k \in Rendered : latex[k].res.ok

\* C10: esc is a total, single-pass, per-character substitution, with
\* esc(a + b) = esc(a) + esc(b) and esc(None) = esc("") = "", and rendering
\* a validated Document never fails.
C10_EscAndRendering == EscPerCharacter /\ RenderingNeverFails

\* A Resume whose project has a link has been rendered, and no text came
\* of it.
C10_LinkedProjectFails ==
    \E k \in Rendered :
        /\ ~latex[k].res.ok
        /\ latex[k].res.err = "TypeError"
        /\ \E i \in DOMAIN SectionList(latex[k].parts.projects) :
                Truthy(SectionList(latex[k].parts.projects)[i].link)

---------------------------------------------------------------------------
(* user_interface/ui.py: the dialogs and the entry lists *)

\* str.strip()
RECURSIVE strip(_)
strip(text) ==
    IF text = <<>> THEN <<>>
    ELSE IF Head(text) \in Whitespace THEN strip(Tail(text))
    ELSE IF text[Len(text)] \in Whitespace THEN strip(Front(text))
    ELSE text

\* text.split(",")
RECURSIVE split_comma(_)
split_comma(text) ==
    IF \A i \in DOMAIN text : text[i] # "," THEN <<text>>
    ELSE LET i == CHOOSE k \in DOMAIN text :
                    text[k] = "," /\ \A j \in 1..(k - 1) : text[j] # ","
         IN  <<SubSeq(text, 1, i - 1)>> \o split_comma(SubSeq(text, i + 1, Len(text)))

\* [s.strip() for s in text.split(",") if s.strip()]
skills_of(text) ==
    LET parts == split_comma(text)
    IN  SelectSeq([i \in DOMAIN parts |-> strip(parts[i])], LAMBDA x : x # <<>>)

\* float(text) of a text written as digits, or digits "." digit; float
\* raises ValueError on the other texts typed here.
float_of(text) ==
    LET dot == {i \in DOMAIN text : text[i] = "."}
    IN  IF text # <<>> /\ AllDigits(text) THEN Ok(Float(10 * Number(text)))
        ELSE IF /\ dot = {Len(text) - 1}
                /\ Len(text) >= 3
                /\ AllDigits(SubSeq(text, 1, Len(text) - 2))
                /\ IsDigit(text[Len(text)])
        THEN Ok(Float(10 * Number(SubSeq(text, 1, Len(text) - 2))
                      + DigitValue(text[Len(text)])))
        ELSE Raise("ValueError")

\* BulletsEditor's limit on a bullet
max_len == 255

\* BulletsEditor.add_bullet: the bullets after the text is entered
add_bullet(bullets, new) ==
    LET text == strip(new)
    IN  IF text = <<>> THEN bullets
        ELSE IF Len(text) > max_len THEN bullets
        ELSE Append(bullets, text)

\* AwardsEditor.add_item
add_item(awards, new) ==
    LET text == strip(new)
    IN  IF text = <<>> THEN awards ELSE Append(awards, text)

\* The bullets (awards) of a dialog in which these texts were entered, one
\* after the other, into an empty editor.
RECURSIVE entered(_, _, _)
entered(Add(_, _), list, texts) ==
    IF texts = <<>> THEN list
    ELSE entered(Add, Add(list, Head(texts)), Tail(texts))

\* A dialog closed by Save with an error box has no result.
NoResult == Raise("messagebox")

\* SkillTypeDialog._save on what the fields hold
SkillTypeDialog_save(f) ==
    LET name == strip(f.name)
        skills == skills_of(f.skills)
    IN  IF name = <<>> THEN NoResult
        ELSE IF skills = <<>> THEN NoResult
        ELSE Ok([name |-> name, skills |-> skills, include |-> TRUE])

\* An ExperienceDialog that would hand back whatever its fields hold.
ExperienceDialog_save_unchecked(f) ==
    Ok([position |-> strip(f.position), company |-> strip(f.company),
        start_date |-> strip(f.start),
        end_date |-> IF strip(f.end) # <<>> THEN strip(f.end) ELSE S_present,
        description |-> f.bullets, include |-> TRUE])

\* ExperienceDialog._save
ExperienceDialog_save(f) ==
    LET position == strip(f.position)
        company == strip(f.company)
        start == strip(f.start)
        end == IF strip(f.end) # <<>> THEN strip(f.end) ELSE S_present
        bullets == entered(add_bullet, <<>>, f.bullets)
    IN  IF position = <<>> \/ company = <<>> THEN NoResult
        ELSE IF bullets = <<>> THEN NoResult
        ELSE Ok([position |-> position, company |-> company, start_date |-> start,
                 end_date |-> end, description |-> bullets, include |-> TRUE])

\* ProjectDialog._save
ProjectDialog_save(f) ==
    LET name == strip(f.name)
        skills == skills_of(f.skills)
        link == strip(f.link)
        bullets == entered(add_bullet, <<>>, f.bullets)
    IN  IF name = <<>> \/ skills = <<>> THEN NoResult
        ELSE IF bullets = <<>> THEN NoResult
        ELSE Ok([name |-> name, skills |-> skills,
                 link |-> IF link # <<>> THEN link ELSE None,
                 description |-> bullets, include |-> TRUE])

\* EducationDialog._save; float() raising leaves the dialog without result.
EducationDialog_save(f) ==
    LET school == strip(f.school)
        degree == strip(f.degree)
        start == strip(f.start)
        gpa_raw == strip(f.gpa)
        gpa == IF gpa_raw # <<>> THEN float_of(gpa_raw) ELSE Ok(NoneObj)
        awards == entered(add_item, <<>>, f.awards)
    IN  IF ~gpa.ok THEN gpa
        ELSE IF school = <<>> \/ degree = <<>> THEN NoResult
        ELSE Ok([school |-> school, degree |-> degree, start_date |-> start,
                 gpa |-> gpa.v, awards |-> awards, include |-> TRUE])

\* "X(text) if text else None" of a header field
header_field(V(_), text) ==
    IF strip(text) # <<>> THEN V(strip(text)) ELSE Ok(NoneObj)

\* A build that would take every entry, whatever its include flag.
included_all(list) == list

\* The entries whose include flag is set, in the order of the list
included(list) == SelectSeq(list, LAMBDA e : e.include)

\* _build_resume_object on the lists and header fields u, in a process with
\* this hash seed, when the clock shows t: the Resume, or the exception
\* that is shown and turned into None.
build_resume_object(u, seed, t, tick) ==
    LET name == IF strip(u.name) = <<>> THEN Raise("ValueError") ELSE Ok(strip(u.name))
        email == header_field(Email, u.email)
        number == header_field(PhoneNumber, u.phone)
        linkedin == header_field(LinkedIn, u.linkedin)
        portfolio == header_field(Website, u.portfolio)
        github == header_field(GitHub, u.github)
        header == Call(<<name, email, number, linkedin, portfolio, github>>,
                       Header(name.v, email.v, number.v, linkedin.v, portfolio.v, github.v))
        sts == included(u.skill_types)
        included_skilltypes ==
            [i \in DOMAIN sts |-> SkillType(sts[i].name, PySet(sts[i].skills, seed))]
        skills_sec == IF sts = <<>> THEN Ok(NoSection)
                      ELSE Call(included_skilltypes,
                                SkillSection(Values(included_skilltypes)))
        exps == included(u.experiences)
        included_exps ==
            [i \in DOMAIN exps |->
                LET e == exps[i]
                    desc == [k \in DOMAIN e.description |-> BulletPoint(e.description[k])]
                    start == Date(e.start_date)
                    end == IF Truthy(e.end_date) THEN Date(e.end_date) ELSE Date(S_present)
                IN  Call(desc \o <<start, end>>,
                         Experience(e.position, e.company, Values(desc),
                                    start.v, end.v, t, tick))]
        exp_sec == IF exps = <<>> THEN Ok(NoSection)
                   ELSE Call(included_exps, ExperienceSection(Values(included_exps)))
        projs == included(u.projects)
        included_projs ==
            [i \in DOMAIN projs |->
                LET p == projs[i]
                    desc == [k \in DOMAIN p.description |-> BulletPoint(p.description[k])]
                    link == IF Truthy(p.link) THEN Website(p.link) ELSE Ok(NoneObj)
                IN  Call(desc \o <<link>>, Project(p.name, p.skills, Values(desc), link.v))]
        proj_sec == IF projs = <<>> THEN Ok(NoSection)
                    ELSE Call(included_projs, ProjectSection(Values(included_projs)))
        edus == included(u.educations)
        included_edu ==
            [i \in DOMAIN edus |->
                LET ed == edus[i]
                    start == Date(ed.start_date)
                IN  Call(<<start>>,
                         Education(ed.school, ed.degree, start.v, ed.awards, ed.gpa, t, tick))]
        edu_sec == IF edus = <<>> THEN Ok(NoSection)
                   ELSE Call(included_edu, EducationSection(Values(included_edu)))
    IN  Call(<<header, skills_sec, exp_sec, proj_sec, edu_sec>>,
             Ok(Resume(header.v, skills_sec.v, exp_sec.v, proj_sec.v, edu_sec.v)))

---------------------------------------------------------------------------
(* The user interface at work: the user types header fields, adds, edits,  *)
(* deletes and toggles entries, and presses Save                           *)

\* The number of entries the four lists hold together stays within this.
MaxEntries == 2

T_skills == <<"P", "y", ",", " ", "C", "+", "+">>
T_no_skills == <<" ", ",", " ">>
T_gpa_high == <<"4", ".", "1">>
T_gpa_word == <<"a", "b", "c">>
T_blank == <<" ">>

\* What the user may leave in the fields of each dialog before Save: fields
\* in order, and fields with one of them left blank, mistyped or overlong.
SkillTypeFilled == [name |-> T_Lang, skills |-> T_skills]
SkillTypeFields ==
    {SkillTypeFilled,
     [SkillTypeFilled EXCEPT !.name = T_blank],
     [SkillTypeFilled EXCEPT !.skills = T_no_skills]}

ExperienceFilled ==
    [position |-> T_Dev, company |-> T_Co, start |-> D_2022, end |-> <<>>,
     bullets |-> <<T_DidX>>]
ExperienceFields ==
    {ExperienceFilled,
     [ExperienceFilled EXCEPT !.start = D_bad],
     [ExperienceFilled EXCEPT !.end = D_2022],
     [ExperienceFilled EXCEPT !.position = T_blank],
     [ExperienceFilled EXCEPT !.bullets = <<>>],
     [ExperienceFilled EXCEPT !.bullets = <<Xs(max_len + 1)>>]}

ProjectFilled ==
    [name |-> T_Site, skills |-> T_Py, link |-> <<>>, bullets |-> <<T_DidX>>]
ProjectFields ==
    {ProjectFilled,
     [ProjectFilled EXCEPT !.link = T_site],
     [ProjectFilled EXCEPT !.link = T_site_bad],
     [ProjectFilled EXCEPT !.skills = <<>>],
     [ProjectFilled EXCEPT !.bullets = <<>>]}

EducationFilled ==
    [school |-> T_Uni, degree |-> T_BSc, start |-> D_2022, gpa |-> <<>>,
     awards |-> <<T_blank, T_Dean>>]
EducationFields ==
    {EducationFilled,
     [EducationFilled EXCEPT !.gpa = T_gpa_high],
     [EducationFilled EXCEPT !.gpa = T_gpa_word],
     [EducationFilled EXCEPT !.degree = <<>>]}

\* What the user may type into the header: nothing, or a name and an
\* e-mail address.
HeaderTyped ==
    {[name |-> <<>>, email |-> <<>>],
     [name |-> T_name, email |-> T_email]}

\* The entries the dialogs hand back from these fields.
Results(save(_), fields) == {save(f).v : f \in {g \in fields : save(g).ok}}
SkillTypeResults == Results(SkillTypeDialog_save, SkillTypeFields)
ExperienceResults == Results(ExperienceDialog_save, ExperienceFields)
ProjectResults == Results(ProjectDialog_save, ProjectFields)
EducationResults == Results(EducationDialog_save, EducationFields)

Entries(u) ==
    Len(u.skill_types) + Len(u.experiences) + Len(u.projects) + Len(u.educations)

\* list.pop(idx)
Pop(list, idx) == SubSeq(list, 1, idx - 1) \o SubSeq(list, idx + 1, Len(list))

\* An edit that would store the dialog's result as it is, its include flag
\* set.
Edited_as_new(list, idx, result) == [list EXCEPT ![idx] = result]

\* The entry an edit stores: the dialog's result with the old include flag.
Edited(list, idx, result) ==
    [list EXCEPT ![idx] = [result EXCEPT !.include = list[idx].include]]

\* Every handler but on_save leaves no Resume behind.
Handled ==
    /\ built' = NotBuilt
    /\ UNCHANGED <<now, hashSeed, data, resume, loaded, latex, escArgs, escOut>>

\* The user types the name and the e-mail address into the header.
type_header ==
    \E typed \in HeaderTyped :
        /\ ui' = [ui EXCEPT !.name = typed.name, !.email = typed.email]
        /\ Handled

add_skilltype ==
    /\ Entries(ui) < MaxEntries
    /\ \E result \in SkillTypeResults :
        /\ ui' = [ui EXCEPT !.skill_types = Append(@, result)]
        /\ Handled

edit_skilltype ==
    \E idx \in DOMAIN ui.skill_types, result \in SkillTypeResults :
        /\ ui' = [ui EXCEPT !.skill_types = Edited(@, idx, result)]
        /\ Handled

delete_skilltype ==
    \E idx \in DOMAIN ui.skill_types :
        /\ ui' = [ui EXCEPT !.skill_types = Pop(@, idx)]
        /\ Handled

toggle_skill_include ==
    \E idx \in DOMAIN ui.skill_types, var \in BOOLEAN :
        /\ ui' = [ui EXCEPT !.skill_types[idx].include = var]
        /\ Handled

add_experience ==
    /\ Entries(ui) < MaxEntries
    /\ \E result \in ExperienceResults :
        /\ ui' = [ui EXCEPT !.experiences = Append(@, result)]
        /\ Handled

edit_experience ==
    \E idx \in DOMAIN ui.experiences, result \in ExperienceResults :
        /\ ui' = [ui EXCEPT !.experiences = Edited(@, idx, result)]
        /\ Handled

delete_experience ==
    \E idx \in DOMAIN ui.experiences :
        /\ ui' = [ui EXCEPT !.experiences = Pop(@, idx)]
        /\ Handled

add_project ==
    /\ Entries(ui) < MaxEntries
    /\ \E result \in ProjectResults :
        /\ ui' = [ui EXCEPT !.projects = Append(@, result)]
        /\ Handled

edit_project ==
    \E idx \in DOMAIN ui.projects, result \in ProjectResults :
        /\ ui' = [ui EXCEPT !.projects = Edited(@, idx, result)]
        /\ Handled

delete_project ==
    \E idx \in DOMAIN ui.projects :
        /\ ui' = [ui EXCEPT !.projects = Pop(@, idx)]
        /\ Handled

add_education ==
    /\ Entries(ui) < MaxEntries
    /\ \E result \in EducationResults :
        /\ ui' = [ui EXCEPT !.educations = Append(@, result)]
        /\ Handled

edit_education ==
    \E idx \in DOMAIN ui.educations, result \in EducationResults :
        /\ ui' = [ui EXCEPT !.educations = Edited(@, idx, result)]
        /\ Handled

delete_education ==
    \E idx \in DOMAIN ui.educations :
        /\ ui' = [ui EXCEPT !.educations = Pop(@, idx)]
        /\ Handled

\* _toggle_include on the experience, project or education list
toggle_include ==
    \E items \in {"experiences", "projects", "educations"}, var \in BOOLEAN :
        \E idx \in DOMAIN ui[items] :
            /\ ui' = [ui EXCEPT ![items][idx].include = var]
            /\ Handled

\* on_save as far as the Resume it builds.
on_save ==
    \E tick \in Ticks :
        /\ now + tick <= ClockEnd
        /\ built' = [made |-> TRUE, res |-> build_resume_object(ui, hashSeed, now, tick),
                     t |-> now, tick |-> tick]
        /\ now' = now + tick
        /\ UNCHANGED <<hashSeed, data, resume, loaded, latex, ui, escArgs, escOut>>

\* A move that would write the item over its neighbour.
Moved_over(list, idx, delta) ==
    LET below == IF idx + delta < Len(list) THEN idx + delta ELSE Len(list)
        new_idx == IF below > 1 THEN below ELSE 1
    IN  [list EXCEPT ![new_idx] = list[idx]]

\* The swap that _move_section, _move_item and BulletsEditor.move make, each
\* on its own list: the item at idx and its neighbour on the side of delta
\* change places; at the end of the list on that side the list stays as it
\* is.
Moved(list, idx, delta) ==
    LET below == IF idx + delta < Len(list) THEN idx + delta ELSE Len(list)
        new_idx == IF below > 1 THEN below ELSE 1
    IN  IF new_idx = idx THEN list
        ELSE [list EXCEPT ![idx] = list[new_idx], ![new_idx] = list[idx]]

\* Move Up and Move Down
Deltas == {-1, 1}

\* The four lists of entries
ListNames == {"skill_types", "experiences", "projects", "educations"}

\* A dialog left by Cancel has no result either.
Cancelled == Raise("cancel")

\* What the fields of the dialog of each list may hold when it is left.
DialogFields ==
    [skill_types |-> SkillTypeFields, experiences |-> ExperienceFields,
     projects |-> ProjectFields, educations |-> EducationFields]

\* How the dialog of a list is left: by Save on what its fields hold, with
\* a result or with an error box and then Cancel, or by Cancel at once.
Outcome(items, f, saved) ==
    IF ~saved THEN Cancelled
    ELSE CASE items = "skill_types" -> SkillTypeDialog_save(f)
           [] items = "experiences" -> ExperienceDialog_save(f)
           [] items = "projects" -> ProjectDialog_save(f)
           [] items = "educations" -> EducationDialog_save(f)

\* edit_skilltype, edit_experience, edit_project and edit_education with
\* the line idx selected, once the dialog is left: "if dlg.result:".
edit_closed(items, idx, outcome) ==
    /\ ui' = [ui EXCEPT ![items] = IF outcome.ok THEN Edited(@, idx, outcome.v) ELSE @]
    /\ Handled

\* An edit whose dialog is left without a result
edit_dismissed ==
    \E items \in ListNames :
        \E idx \in DOMAIN ui[items], f \in DialogFields[items], saved \in BOOLEAN :
            /\ ~Outcome(items, f, saved).ok
            /\ edit_closed(items, idx, Outcome(items, f, saved))

\* _move_item(items, listbox, delta) with the line idx selected
move_item_at(items, idx, delta) ==
    /\ ui' = [ui EXCEPT ![items] = Moved(@, idx, delta)]
    /\ Handled

\* _move_item on the selected line of one of the four lists
move_item ==
    \E items \in ListNames, delta \in Deltas :
        \E idx \in DOMAIN ui[items] : move_item_at(items, idx, delta)

\* _move_section on the selected line of the order list
move_section ==
    \E idx \in DOMAIN ui.section_order, delta \in Deltas :
        /\ ui' = [ui EXCEPT !.section_order = Moved(@, idx, delta)]
        /\ Handled

\* The keys of the record that to_dict makes, in the order json.dump
\* writes them.
to_dict_keys == <<"header", "skills", "experience", "projects", "education">>

\* on_save with a Resume built and a path chosen: the Resume is written to
\* the file.
save_written(res, t, tick) ==
    /\ res.ok
    /\ built' = [made |-> TRUE, res |-> res, t |-> t, tick |-> tick]
    /\ data' = [origin |-> "to_dict", d |-> Resume_to_dict(res.v)]

on_save_written ==
    \E tick \in Ticks :
        /\ now + tick <= ClockEnd
        /\ save_written(build_resume_object(ui, hashSeed, now, tick), now, tick)
        /\ now' = now + tick
        /\ UNCHANGED <<hashSeed, resume, loaded, latex, ui, escArgs, escOut>>

\* on_export, once, of the file that Save has just written
on_export ==
    /\ built.made
    /\ built.res.ok
    /\ data.origin = "to_dict"
    /\ latex = <<>>
    /\ \E tick \in Ticks :
        /\ now + tick <= ClockEnd
        /\ latex' = Append(latex,
                Run("load_json_and_generate_latex", data.d, hashSeed,
                    from_dict(data.d, hashSeed, now, tick).ok,
                    load_json_and_generate_latex(data.d, hashSeed, now, tick)))
        /\ now' = now + tick
        /\ UNCHANGED <<hashSeed, data, resume, loaded, ui, built, escArgs, escOut>>

\* One sitting at the window: the user fills the header and the lists and
\* orders the sections, then saves, then exports the file.
Unsaved == data.origin = "none"
header_typed == Unsaved /\ type_header
skilltype_added == Unsaved /\ add_skilltype
education_added == Unsaved /\ add_education
section_moved == Unsaved /\ move_section

NextOrder ==
    \/ header_typed
    \/ skilltype_added
    \/ education_added
    \/ section_moved
    \/ on_save_written
    \/ on_export

SpecOrder == Init /\ [][NextOrder]_vars

---------------------------------------------------------------------------
(* The Move buttons at work: the user adds projects, ticks and moves the   *)
(* lines of the lists, and opens a project dialog, enters, moves and       *)
(* deletes bullets in its editor and leaves it by Cancel                   *)

\* The bullets of an editor stay within this.
MaxBullets == 2

\* What the user may type into the bullet field of the editor.
BulletTyped == {T_DidX, T_Dean, T_blank}

\* The dialogs are modal: the window takes no event while one is open.
Closed == ~ui.dialog.open
project_added == Closed /\ add_project
include_toggled == Closed /\ toggle_include
item_moved == Closed /\ move_item

\* ProjectDialog(master, initial): the editor starts with a copy of the
\* bullets of the entry, or empty for a new entry.
ProjectDialog_open ==
    /\ Closed
    /\ \E initial \in {<<>>} \cup {ui.projects[idx].description : idx \in DOMAIN ui.projects} :
        ui' = [ui EXCEPT !.dialog = [open |-> TRUE, bullets |-> initial]]
    /\ Handled

\* BulletsEditor.add_bullet on what the bullet field holds
BulletsEditor_add_bullet ==
    /\ ui.dialog.open
    /\ Len(ui.dialog.bullets) < MaxBullets
    /\ \E new \in BulletTyped :
        ui' = [ui EXCEPT !.dialog.bullets = add_bullet(@, new)]
    /\ Handled

\* BulletsEditor.delete_selected with one line selected
BulletsEditor_delete_selected ==
    /\ ui.dialog.open
    /\ \E idx \in DOMAIN ui.dialog.bullets :
        ui' = [ui EXCEPT !.dialog.bullets = Pop(@, idx)]
    /\ Handled

\* BulletsEditor.move(delta) with the line idx selected
BulletsEditor_move_at(idx, delta) ==
    /\ ui.dialog.open
    /\ ui' = [ui EXCEPT !.dialog.bullets = Moved(@, idx, delta)]
    /\ Handled

BulletsEditor_move ==
    \E delta \in Deltas :
        \E idx \in DOMAIN ui.dialog.bullets : BulletsEditor_move_at(idx, delta)

\* Cancel: the dialog is destroyed without a result.
ProjectDialog_destroy ==
    /\ ui.dialog.open
    /\ ui' = [ui EXCEPT !.dialog = NoDialog]
    /\ Handled

NextMove ==
    \/ project_added
    \/ include_toggled
    \/ item_moved
    \/ ProjectDialog_open
    \/ BulletsEditor_add_bullet
    \/ BulletsEditor_delete_selected
    \/ BulletsEditor_move
    \/ ProjectDialog_destroy

SpecMove == Init /\ [][NextMove]_vars

---------------------------------------------------------------------------
(* Load at work: the user types a header, adds skill groups and projects,  *)
(* and loads a file                                                        *)

\* A number where the record of a Resume has a list: what a file written
\* by hand may hold.
JsonNumber == <<<<"<number>">>>>

\* list(x): TypeError for a number.
list_of(x) == IF x = JsonNumber THEN Raise("TypeError") ELSE Ok(x)

\* "str(x) if x else ''" of an optional validator object
StrOrEmpty(obj) == IF obj # NoneObj THEN Str(obj) ELSE <<>>

\* The entries that on_load makes of the objects of a Resume.
skilltype_loaded(st) ==
    Ok([name |-> st.name, skills |-> List(st.skills), include |-> TRUE])
experience_loaded(exp) ==
    Ok([position |-> exp.position, company |-> exp.company,
        start_date |-> Str(exp.start_date), end_date |-> Str(exp.end_date),
        description |-> [k \in DOMAIN exp.description |-> exp.description[k].text],
        include |-> TRUE])
project_entry(p, skills) ==
    [name |-> p.name, skills |-> skills,
     link |-> IF p.link # NoneObj THEN Str(p.link) ELSE None,
     description |-> [k \in DOMAIN p.description |-> p.description[k].text],
     include |-> TRUE]
project_loaded(p) == Call(<<list_of(p.skills)>>, Ok(project_entry(p, list_of(p.skills).v)))
education_entry(ed, awards) ==
    [school |-> ed.school, degree |-> ed.degree, start_date |-> Str(ed.start_date),
     gpa |-> ed.gpa, awards |-> awards, include |-> TRUE]
education_loaded(ed) ==
    LET awards == IF Truthy(Get(ed.awards)) THEN list_of(ed.awards) ELSE Ok(<<>>)
    IN  Call(<<awards>>, Ok(education_entry(ed, awards.v)))

\* "self.items = []" and then one append for each object: the entries
\* appended before the first that cannot be made.
Appended(rs) ==
    IF Failed(rs)
    THEN Values(SubSeq(rs, 1, (CHOOSE i \in DOMAIN rs :
                                  ~rs[i].ok /\ \A j \in 1..(i - 1) : rs[j].ok) - 1))
    ELSE Values(rs)

\* The part of on_load after the try block, on the Resume r: the header
\* fields are set and the four lists are filled one after the other, up to
\* the first entry that raises.
populated(u, r) ==
    LET skills == [i \in DOMAIN r.skills.items |-> skilltype_loaded(r.skills.items[i])]
        exps == [i \in DOMAIN r.experience.items |->
                    experience_loaded(r.experience.items[i])]
        projs == [i \in DOMAIN r.projects.items |-> project_loaded(r.projects.items[i])]
        edus == [i \in DOMAIN r.education.items |->
                    education_loaded(r.education.items[i])]
    IN  [u EXCEPT !.name = IF Truthy(r.header.name) THEN r.header.name ELSE <<>>,
                  !.email = StrOrEmpty(r.header.email),
                  !.phone = StrOrEmpty(r.header.number),
                  !.linkedin = StrOrEmpty(r.header.linkedin),
                  !.portfolio = StrOrEmpty(r.header.portfolio),
                  !.github = StrOrEmpty(r.header.github),
                  !.skill_types = Appended(skills),
                  !.experiences = Appended(exps),
                  !.projects = Appended(projs),
                  !.educations = IF Failed(projs) THEN @ ELSE Appended(edus)]

\* on_load does not come to its end on the Resume r: an entry raises.
LoadRaises(r) ==
    \/ \E i \in DOMAIN r.projects.items : ~project_loaded(r.projects.items[i]).ok
    \/ \E i \in DOMAIN r.education.items : ~education_loaded(r.education.items[i]).ok

\* A file that cannot be read or parsed, and a file with a record.
NoFile == [readable |-> FALSE, d |-> EmptyRecord]
File(d) == [readable |-> TRUE, d |-> d]

\* json.load and Resume.from_dict of on_load's try block
read_file(file, seed, t, tick) ==
    IF ~file.readable THEN Raise("OSError") ELSE from_dict(file.d, seed, t, tick)

\* The window after on_load gets this from its try block.
load_shown(u, res) == IF res.ok THEN populated(u, res.v) ELSE u

\* on_load of a file, the clock gaining tick while from_dict runs
on_load_of(file, tick) ==
    /\ now + tick <= ClockEnd
    /\ ui' = load_shown(ui, read_file(file, hashSeed, now, tick))
    /\ now' = now + tick
    /\ built' = NotBuilt
    /\ UNCHANGED <<hashSeed, data, resume, loaded, latex, escArgs, escOut>>

\* The records of the files: a Resume with every section, one with a
\* header only, one that lacks the school of an education, and one with a
\* number for the skills of its second project.
RecordFull ==
    [header |-> HeaderFull, skills |-> DictSection(<<SkillLang>>),
     experience |-> DictSection(<<ExperienceBase>>),
     projects |-> DictSection(<<ProjectBase, [ProjectBase EXCEPT !.link = T_site]>>),
     education |-> DictSection(<<EducationBase>>)]
RecordNoSchool ==
    [RecordFull EXCEPT !.education = DictSection(<<[EducationBase EXCEPT !.school = Missing]>>)]
RecordNumber ==
    [RecordFull EXCEPT
        !.projects = DictSection(<<ProjectBase, [ProjectBase EXCEPT !.skills = JsonNumber]>>)]
LoadFiles == {NoFile, File(RecordFull), File(RecordBase), File(RecordNoSchool), File(RecordNumber)}

on_load ==
    \E tick \in {k \in Ticks : now + k <= ClockEnd} :
        \E file \in LoadFiles : on_load_of(file, tick)

NextLoad ==
    \/ type_header
    \/ add_skilltype
    \/ add_project
    \/ on_load

SpecLoad == Init /\ [][NextLoad]_vars

NextUI ==
    \/ Tick
    \/ type_header
    \/ add_skilltype \/ edit_skilltype \/ delete_skilltype \/ toggle_skill_include
    \/ add_experience \/ edit_experience \/ delete_experience
    \/ add_project \/ edit_project \/ delete_project
    \/ add_education \/ edit_education \/ delete_education
    \/ toggle_include
    \/ on_save

SpecUI == Init /\ [][NextUI]_vars

\* The lists and Save at work: the user types a header, adds, edits,
\* deletes, moves and ticks entries, and presses Save.
NextBuild ==
    \/ type_header
    \/ add_skilltype \/ edit_skilltype \/ delete_skilltype \/ toggle_skill_include
    \/ add_experience \/ edit_experience \/ delete_experience
    \/ add_project \/ edit_project \/ delete_project
    \/ add_education \/ edit_education \/ delete_education
    \/ toggle_include
    \/ move_item
    \/ on_save

SpecBuild == Init /\ [][NextBuild]_vars

\* The lists at work: the user adds, edits, deletes and ticks entries, and
\* leaves edit dialogs without a result.
NextEdit ==
    \/ add_skilltype \/ edit_skilltype \/ delete_skilltype \/ toggle_skill_include
    \/ add_experience \/ edit_experience \/ delete_experience
    \/ add_project \/ edit_project \/ delete_project
    \/ add_education \/ edit_education \/ delete_education
    \/ toggle_include
    \/ edit_dismissed

SpecEdit == Init /\ [][NextEdit]_vars

---------------------------------------------------------------------------
(* Properties of the user interface *)

IsDay(text) == Strptime(text).ok
IsDateText(text) == Lower(text) = S_present \/ IsDay(text)
Entry(list) == {list[i] : i \in DOMAIN list}

\* What the domain model asks of an experience, a project and an education
\* entry, read off the texts the lists hold, at a clock showing t.
ValidBullets(description) ==
    /\ description # <<>>
    /\ \A i \in DOMAIN description : Len(description[i]) \in 1..MaxBulletLen

ValidExperience(e, t) ==
    /\ ValidBullets(e.description)
    /\ IsDateText(e.start_date)
    /\ IsDateText(e.end_date)
    /\ to_datetime([value |-> Lower(e.start_date)], t)
         < to_datetime([value |-> Lower(e.end_date)], t)
    /\ to_datetime([value |-> Lower(e.start_date)], t) <= t

ValidProject(p) ==
    /\ ValidBullets(p.description)
    /\ p.link = None \/ Website_url_regex(p.link)

ValidEducation(ed, t) ==
    /\ IsDateText(ed.start_date)
    /\ to_datetime([value |-> Lower(ed.start_date)], t) < t
    /\ ed.gpa = NoneObj \/ ed.gpa.float \in 0..40

DialogChecked ==
    /\ \A st \in Entry(ui.skill_types) : st.name # <<>> /\ st.skills # <<>>
    /\ \A e \in Entry(ui.experiences) :
        e.position # <<>> /\ e.company # <<>> /\ ValidBullets(e.description)
    /\ \A p \in Entry(ui.projects) :
        p.name # <<>> /\ p.skills # <<>> /\ ValidBullets(p.description)
    /\ \A ed \in Entry(ui.educations) : ed.school # <<>> /\ ed.degree # <<>>

\* What a Resume handed out by _build_resume_object secures of the entries
\* included in it: dates that parse, days in their order and not in the
\* future, a GPA in range, a link that is a URL.
SaveChecked ==
    (built.made /\ built.res.ok) =>
        /\ \A e \in Entry(included(ui.experiences)) :
            /\ IsDateText(e.start_date)
            /\ IsDateText(e.end_date)
            /\ (IsDay(e.start_date) /\ IsDay(e.end_date)) =>
                    Strptime(e.start_date).v < Strptime(e.end_date).v
            /\ IsDay(e.start_date) => Strptime(e.start_date).v <= built.t + built.tick
        /\ \A p \in Entry(included(ui.projects)) :
            p.link = None \/ Website_url_regex(p.link)
        /\ \A ed \in Entry(included(ui.educations)) :
            /\ IsDateText(ed.start_date)
            /\ IsDay(ed.start_date) => Strptime(ed.start_date).v < built.t + built.tick
            /\ ed.gpa = NoneObj \/ ed.gpa.float \in 0..40

---------------------------------------------------------------------------
(* Properties of the links, the sections and the header of a rendering *)

\* Where the symbols of origin o that follow place i end: i if none does.
RECURSIVE EndAfter(_, _, _)
EndAfter(out, o, i) ==
    IF i + 1 > Len(out) THEN i
    ELSE IF out[i + 1].o # o THEN i
    ELSE EndAfter(out, o, i + 1)

\* The characters of the places i..j of a rendering
Slice(out, i, j) == [k \in 1..(j - i + 1) |-> out[i + k - 1].s]

S_href == [o |-> "tpl", s |-> "\\href{"]

\* The places of a set, in their order.
Ordered(places) ==
    [n \in 1..Cardinality(places) |->
        CHOOSE p \in places : Cardinality({q \in places : q < p}) = n - 1]

\* The links of a rendering, in their order: after each "\href{" the
\* address, the piece of template that follows it, and the label.
Links(out) ==
    LET at == Ordered({i \in DOMAIN out : out[i] = S_href})
    IN  [n \in DOMAIN at |->
            LET u == EndAfter(out, "url", at[n])
                w == IF u + 1 <= Len(out) THEN out[u + 1].s ELSE ""
                l == EndAfter(out, "field", u + 1)
            IN  [url |-> Slice(out, at[n] + 1, u), wrap |-> w,
                 label |-> Slice(out, u + 2, l)]]

\* a field of a record that holds a value
IsSet(x) == Truthy(Get(x))

\* A link as href writes it with blue = True.
BlueLink(url, label) ==
    [url |-> url, wrap |-> "}{\\textcolor{vibrantblue}{", label |-> label]

\* What the addresses and labels of a record's links are, read off the
\* record itself: those of the header, then those of the projects.
HeaderLinks(h) ==
    (IF IsSet(h.email) THEN <<BlueLink(S_mailto \o h.email, FixedEscapeOf(h.email))>> ELSE <<>>)
    \o (IF IsSet(h.number)
        THEN <<BlueLink(S_tel \o SelectSeq(h.number, LAMBDA ch : ch \in DigitChars \cup {"+"}),
                        h.number)>>
        ELSE <<>>)
    \o (IF IsSet(h.linkedin) THEN <<BlueLink(h.linkedin, S_Linkedin)>> ELSE <<>>)
    \o (IF IsSet(h.portfolio) THEN <<BlueLink(h.portfolio, S_Website)>> ELSE <<>>)
    \o (IF IsSet(h.github) THEN <<BlueLink(h.github, S_GitHub)>> ELSE <<>>)

ProjectLinks(parts) ==
    LET ps == SectionList(parts.projects)
        linked == SelectSeq(ps, LAMBDA p : IsSet(p.link))
    IN  [i \in DOMAIN linked |-> BlueLink(linked[i].link, FixedEscapeOf(linked[i].name))]

ExpectedLinks(parts) == HeaderLinks(parts.header) \o ProjectLinks(parts)

Count(out, piece) == Cardinality({i \in DOMAIN out : out[i] = [o |-> "tpl", s |-> piece]})

\* The four optional sections and their headings.
SectionNames == {"skills", "experience", "projects", "education"}
Heading ==
    ("skills" :> "\\section{Skills}") @@
    ("experience" :> "\\section{Experience}") @@
    ("projects" :> "\\section{Projects}") @@
    ("education" :> "\\section{Education}")

\* The block of a record holds at least one entry.
Populated(parts, name) == SectionList(parts[name]) # <<>>

\* There are three line ends in a row at place i: an empty block between
\* two separators.
BlankBlock(out, i) ==
    /\ i + 2 <= Len(out)
    /\ \A k \in i..(i + 2) : out[k] = [o |-> "tpl", s |-> "\n"]

\* C12: for each of the four optional sections the output has the
\* section's heading if and only if the block is set and holds at least one
\* entry; an absent block, or a block without entries, adds no heading, no
\* separator and no blank block.
C12_HeadingIffPopulated ==
    \A k \in Newest :
        /\ \A name \in SectionNames :
            Count(latex[k].res.v, Heading[name])
                = IF Populated(latex[k].parts, name) THEN 1 ELSE 0
        /\ \A i \in DOMAIN latex[k].res.v : ~BlankBlock(latex[k].res.v, i)

\* A record whose skills block is set and has no groups has been rendered
\* by load_json_and_generate_latex, without a skills heading and with its
\* closing marker.
C12_EmptySkillsRendered ==
    \E k \in Texts :
        /\ latex[k].by = "load_json_and_generate_latex"
        /\ latex[k].parts.skills = DictSection(<<>>)
        /\ Count(latex[k].res.v, "\\section{Skills}") = 0
        /\ Count(latex[k].res.v, "\\end{document}") = 1

\* The places of a piece of template in a rendering.
Places(out, piece) == {i \in DOMAIN out : out[i] = [o |-> "tpl", s |-> piece]}

\* Every place of the one piece is before every place of the other.
Before(out, first, second) ==
    \A i \in Places(out, first) : \A j \in Places(out, second) : i < j

\* The marks of the blocks, in the order the blocks are to come.
BlockMarks ==
    <<"\\begin{center}", "\\end{center}", "\\section{Skills}", "\\section{Experience}",
      "\\section{Projects}", "\\section{Education}", "\\end{document}">>

\* C13: every rendered text begins with the fixed preamble and ends with
\* the closing marker \end{document}; in between come the header block and
\* then the populated section blocks in the order skills, experience,
\* projects, education, each of them once.
C13_FixedOrder ==
    \A k \in Newest :
        LET out == latex[k].res.v
        IN  /\ <<out[1]>> = LATEX_PREAMBLE
            /\ <<out[Len(out)]>> = LATEX_END
            /\ Places(out, LATEX_PREAMBLE[1].s) = {1}
            /\ Places(out, "\\end{document}") = {Len(out)}
            /\ Places(out, "\\begin{center}") = {3}
            /\ Cardinality(Places(out, "\\end{center}")) = 1
            /\ \A name \in SectionNames :
                Populated(latex[k].parts, name) => Count(out, Heading[name]) = 1
            /\ \A m \in DOMAIN BlockMarks : \A n \in DOMAIN BlockMarks :
                m < n => Before(out, BlockMarks[m], BlockMarks[n])

\* A Resume with all four sections has been rendered, each heading once.
C13_AllSectionsRendered ==
    \E k \in Texts :
        \A name \in SectionNames :
            /\ Populated(latex[k].parts, name)
            /\ Count(latex[k].res.v, Heading[name]) = 1

\* The icons of the contact line, by field, in the line's order.
ContactFields == <<"email", "number", "linkedin", "portfolio", "github">>
ContactIcon ==
    ("email" :> "    {\\textcolor{vibrantblue}\\faEnvelope \\hspace{0.5mm}}") @@
    ("number" :> "    {\\textcolor{vibrantblue}\\faPhone \\hspace{0.5mm}}") @@
    ("linkedin" :> "    {\\textcolor{vibrantblue}\\faLinkedin \\hspace{0.5mm}}") @@
    ("portfolio" :> "    {\\textcolor{vibrantblue}\\faGlobe \\hspace{0.5mm}}") @@
    ("github" :> "    {\\textcolor{vibrantblue}\\faGithub \\hspace{0.5mm}}")

S_divider == " \n    $|$ \n    "

\* The places of the contact icons in a rendering, in their order, and the
\* places of the dividers.
IconPlaces(out) ==
    Ordered({i \in DOMAIN out :
        out[i].o = "tpl" /\ \E f \in DOMAIN ContactIcon : out[i].s = ContactIcon[f]})
DividerPlaces(out) == Ordered(Places(out, S_divider))

\* The icons a header's contact line is to show: those of its set fields.
ExpectedIcons(h) ==
    LET fields == SelectSeq(ContactFields, LAMBDA f : IsSet(h[f]))
    IN  [n \in DOMAIN fields |-> ContactIcon[fields[n]]]

\* C14: the contact line has one entry for each optional contact field that
\* is set and none for the others, in the order e-mail, phone, LinkedIn,
\* portfolio, GitHub; one divider stands between each two entries that
\* follow each other and nowhere else; the phone's link is tel: and digits.
C14_ContactLine ==
    \A k \in Newest :
        LET out == latex[k].res.v
            h == latex[k].parts.header
            icons == IconPlaces(out)
            dividers == DividerPlaces(out)
        IN  /\ [n \in DOMAIN icons |-> out[icons[n]].s] = ExpectedIcons(h)
            /\ \A n \in DOMAIN icons :
                /\ out[icons[n] + 1] = [o |-> "tpl", s |-> "\n    "]
                /\ out[icons[n] + 2] = S_href
            /\ Len(dividers) = IF Len(icons) = 0 THEN 0 ELSE Len(icons) - 1
            /\ \A n \in DOMAIN dividers : icons[n] < dividers[n] /\ dividers[n] < icons[n + 1]
            /\ \A n \in DOMAIN icons :
                out[icons[n]].s = ContactIcon["number"] =>
                    LET url == Slice(out, icons[n] + 3, EndAfter(out, "url", icons[n] + 2))
                    IN  /\ SubSeq(url, 1, 4) = S_tel
                        /\ Len(url) > 4
                        /\ AllDigits(SubSeq(url, 5, Len(url)))

\* A header with an e-mail address and a GitHub address and nothing else
\* has been rendered: two entries, one divider.
C14_TwoContactsRendered ==
    \E k \in Texts :
        /\ [n \in DOMAIN IconPlaces(latex[k].res.v) |->
                latex[k].res.v[IconPlaces(latex[k].res.v)[n]].s]
            = <<ContactIcon["email"], ContactIcon["github"]>>
        /\ Len(DividerPlaces(latex[k].res.v)) = 1

---------------------------------------------------------------------------
(* Properties of the experience, project and education blocks *)

\* The keyword rules for the icon of an experience, in their order.
IconRules ==
    <<[keys |-> {<<"t", "e", "s", "t">>, <<"a", "u", "t", "o", "m", "a", "t", "i", "o", "n">>},
       icon |-> "Train"],
      [keys |-> {<<"e", "m", "g">>, <<"s", "e", "n", "s", "o", "r">>, <<"b", "i", "o">>},
       icon |-> "Heartbeat"],
      [keys |-> {<<"h", "a", "c", "k", "a", "t", "h", "o", "n">>, <<"f", "o", "u", "n", "d", "e", "r">>,
                 <<"l", "e", "a", "d">>},
       icon |-> "Trophy"],
      [keys |-> {<<"k", "a", "r", "a", "t", "e">>, <<"m", "a", "r", "t", "i", "a", "l">>},
       icon |-> "Dragon"],
      [keys |-> {<<"t", "e", "a", "c", "h", "e", "r">>, <<"t", "u", "t", "o", "r">>,
                 <<"a", "s", "s", "i", "s", "t", "a", "n", "t">>},
       icon |-> "Plus"]>>

Matches(rule, position) == \E key \in rule.keys : Contains(Lower(position), key)

\* The icon of the first rule that matches the position, "" if none does.
RuleIcon(position) ==
    IF \A n \in DOMAIN IconRules : ~Matches(IconRules[n], position) THEN ""
    ELSE IconRules[CHOOSE n \in DOMAIN IconRules :
            /\ Matches(IconRules[n], position)
            /\ \A m \in 1..(n - 1) : ~Matches(IconRules[m], position)].icon

\* The icon an entry of a record is to have in a rendering by this
\* function: load_json_and_generate_latex renders what from_dict builds,
\* which has no icon of its own.
EntryIcon(e, by) ==
    IF by = "resume_to_latex" /\ "icon" \in DOMAIN e /\ e.icon # ""
    THEN e.icon ELSE RuleIcon(e.position)

\* The places of the headings of the experience block, in their order.
ExperienceHeadings(out) ==
    Ordered({i \in Places(out, "\\resumeSubheading{") :
        /\ \E a \in Places(out, "\\section{Experience}") : a < i
        /\ \E b \in Places(out, "\\resumeSubHeadingListEnd") : i < b})

\* The command of the icon that the heading at place i shows, "" if none.
ShownIcon(out, i) ==
    IF out[i + 1] = [o |-> "tpl", s |-> "{\\textcolor{vibrantblue}"]
    THEN out[i + 2].s ELSE ""

HeadingLabel(out, i) ==
    LET b == CHOOSE p \in Places(out, "\\textbf{") :
                p > i /\ \A q \in Places(out, "\\textbf{") : q > i => p <= q
    IN  Slice(out, b + 1, EndAfter(out, "field", b))

\* The texts of the bullet lines between the places i and j, in their order.
BulletTexts(out, i, j) ==
    LET at == Ordered({p \in Places(out, "\\resumeItem{") : i < p /\ p < j})
    IN  [n \in DOMAIN at |-> Slice(out, at[n] + 1, EndAfter(out, "field", at[n]))]

\* The bullets of a record's entry as they are to stand in the output.
EntryBullets(e) == [i \in DOMAIN e.description |-> FixedEscapeOf(e.description[i].text)]

\* Where the block of the n-th of the headings at these places ends: at the
\* next heading, or at the place last of the block.
BlockEnd(at, n, last) == IF n < Len(at) THEN at[n + 1] ELSE last

\* C16: the experience block has one heading for each entry, in the order
\* of the list, and each heading is followed, before the next heading, by
\* one bullet line for each element of the entry's description, in the
\* description's order.
C16_ExperienceBlock ==
    \A k \in Newest :
        LET out == latex[k].res.v
            es == SectionList(latex[k].parts.experience)
            at == ExperienceHeadings(out)
        IN  /\ Len(at) = Len(es)
            /\ \A n \in DOMAIN at :
                /\ HeadingLabel(out, at[n]) = FixedEscapeOf(es[n].position)
                /\ BulletTexts(out, at[n],
                        BlockEnd(at, n, CHOOSE b \in Places(out, "\\resumeSubHeadingListEnd") : TRUE))
                    = EntryBullets(es[n])

\* The one experience "Dev" with the one bullet "Did X" has been rendered:
\* one heading, and one bullet line in the whole output.
C16_OneHeadingOneBullet ==
    \E k \in Texts :
        /\ SectionList(latex[k].parts.experience) = <<ExperienceBase>>
        /\ Len(ExperienceHeadings(latex[k].res.v)) = 1
        /\ BulletTexts(latex[k].res.v, 1, Len(latex[k].res.v)) = <<T_DidX>>

\* The places of the headings of the projects, in their order.
ProjectHeadings(out) == Ordered(Places(out, "\\resumeProjectHeading{"))

\* The icon that the renderer is to find on a project.
ProjectIcon(p, by) ==
    IF by = "resume_to_latex" /\ "icon" \in DOMAIN p /\ p.icon # ""
    THEN p.icon ELSE "ShareSquare"

\* The command of the glyph in the heading of a project at place i, "" if
\* the colour group holds none.
ShownGlyph(out, i) ==
    IF out[i + 2] = [o |-> "tpl", s |-> " \\hspace{0.5mm} "] THEN "" ELSE out[i + 2].s

\* The skills of the heading of a project at place i: the free text in
\* the emphasis that follows the divider after the label.
ShownSkills(out, i) ==
    LET b == CHOOSE p \in Places(out, "\\emph{\\textbf{") :
                p > i /\ \A q \in Places(out, "\\emph{\\textbf{") : q > i => p <= q
    IN  Slice(out, b + 1, EndAfter(out, "field", b))

\* The label of the heading at place i is closed and followed by the divider
\* and the emphasis of the skills.
SkillsAfterLabel(out, i) ==
    LET b == CHOOSE p \in Places(out, "\\textbf{") :
                p > i /\ \A q \in Places(out, "\\textbf{") : q > i => p <= q
        e == EndAfter(out, "field", b)
    IN  /\ e + 3 <= Len(out)
        /\ out[e + 1] = [o |-> "tpl", s |-> "}} "]
        /\ out[e + 2] = [o |-> "tpl", s |-> "$|$ "]
        /\ out[e + 3] = [o |-> "tpl", s |-> "\\emph{\\textbf{"]

\* C17: the projects have one heading each, in the order of the list; the
\* glyph of a heading is the share glyph when the project has no icon of
\* its own; the escaped skills, joined by ", ", follow the name; and each
\* heading is followed, before the next, by one bullet line for each
\* element of the description, in its order.
C17_ProjectBlock ==
    \A k \in Newest :
        LET out == latex[k].res.v
            ps == SectionList(latex[k].parts.projects)
            at == ProjectHeadings(out)
        IN  /\ Len(at) = Len(ps)
            /\ \A n \in DOMAIN at :
                /\ out[at[n] + 1] = [o |-> "tpl", s |-> "{\\textcolor{vibrantblue}"]
                /\ ShownGlyph(out, at[n]) = fa(ProjectIcon(ps[n], latex[k].by))
                /\ HeadingLabel(out, at[n]) = FixedEscapeOf(ps[n].name)
                /\ SkillsAfterLabel(out, at[n])
                /\ ShownSkills(out, at[n]) = FixedEscapeOf(Join(S_comma, ps[n].skills))
                /\ BulletTexts(out, at[n], BlockEnd(at, n, Len(out) + 1))
                    = EntryBullets(ps[n])

\* Two projects have been rendered from a Resume built by a client: the
\* first, with no icon, two skills and two bullets, shows the share glyph;
\* the second shows its own.
C17_ShareGlyphAndOwn ==
    \E k \in Texts :
        LET out == latex[k].res.v
            ps == SectionList(latex[k].parts.projects)
            at == ProjectHeadings(out)
        IN  /\ latex[k].by = "resume_to_latex"
            /\ Len(ps) >= 2 /\ Len(at) = Len(ps)
            /\ "icon" \notin DOMAIN ps[1] /\ Len(ps[1].skills) = 2
            /\ ShownGlyph(out, at[1]) = "\\faShareSquare"
            /\ Len(BulletTexts(out, at[1], at[2])) = 2
            /\ "icon" \in DOMAIN ps[2]
            /\ ShownGlyph(out, at[2]) = "\\faDragon"

\* The places of the headings of the education block, in their order.
EducationHeadings(out) ==
    Ordered({i \in Places(out, "\\resumeSubheading{") :
        \E a \in Places(out, "\\section{Education}") : a < i})

\* The free text of the n-th field after the first of the heading at place
\* i: the text after the n-th "}{" that follows i.
HeadingField(out, i, n) ==
    LET seps == Ordered({p \in Places(out, "}{") : p > i})
    IN  Slice(out, seps[n] + 1, EndAfter(out, "field", seps[n]))

\* The text of a GPA in the third field.
GpaText(gpa) == FloatStr(gpa) \o <<" ">> \o S_GPA

\* The parts of the third field of an education: the degree, the awards
\* joined, the GPA text, those that are empty left out.
TailParts(e) ==
    SelectSeq(<<e.degree,
                Join(S_comma, e.awards),
                IF e.gpa # NoneObj THEN GpaText(e.gpa) ELSE <<>> >>,
              LAMBDA part : part # <<>>)

\* A text ends with another.
EndsWith(text, sub) ==
    Len(sub) <= Len(text) /\ SubSeq(text, Len(text) - Len(sub) + 1, Len(text)) = sub

\* No separator leads, trails or is doubled in a text.
CleanlyJoined(text) ==
    /\ ~StartsWith(text, S_comma)
    /\ ~EndsWith(text, S_comma)
    /\ ~Contains(text, S_comma \o S_comma)

\* The third field of every rendered education is the join of its parts,
\* and its date field is the start date alone.
EducationFieldsJoined ==
    \A k \in Newest :
        LET out == latex[k].res.v
            es == SectionList(latex[k].parts.education)
            at == EducationHeadings(out)
        IN  /\ Len(at) = Len(es)
            /\ \A n \in DOMAIN at :
                /\ HeadingField(out, at[n], 2) = FixedEscapeOf(Join(S_comma, TailParts(es[n])))
                /\ HeadingField(out, at[n], 1) = FixedEscapeOf(es[n].start_date)

\* C18: the third field of every rendered education is the join by ", " of
\* the degree, the joined awards and the GPA text (a GPA of 0.0 included),
\* the empty ones skipped, with no separator leading, trailing or doubled;
\* the date field is the start date alone.
C18_EducationThirdField ==
    /\ EducationFieldsJoined
    /\ \A k \in Newest :
        \A i \in DOMAIN EducationHeadings(latex[k].res.v) :
            CleanlyJoined(HeadingField(latex[k].res.v, EducationHeadings(latex[k].res.v)[i], 2))

\* An education whose last award is the empty string has been rendered, and
\* its third field ends with a separator.
C18_TrailingSeparator ==
    \E k \in Texts :
        LET out == latex[k].res.v
            es == SectionList(latex[k].parts.education)
        IN  \E n \in DOMAIN es :
                /\ es[n].awards = <<T_Dean, <<>> >> /\ es[n].gpa = NoneObj
                /\ HeadingField(out, EducationHeadings(out)[n], 2)
                    = FixedEscapeOf(es[n].degree \o S_comma \o T_Dean \o S_comma)

\* An education with a GPA of 0.0 and no awards has been rendered: its third
\* field is the degree and "0.0 GPA".
C18_ZeroGpaShown ==
    \E k \in Texts :
        LET out == latex[k].res.v
            es == SectionList(latex[k].parts.education)
        IN  \E n \in DOMAIN es :
                /\ es[n].awards = <<>> /\ es[n].gpa = Float(0)
                /\ HeadingField(out, EducationHeadings(out)[n], 2)
                    = FixedEscapeOf(es[n].degree \o S_comma \o <<"0", ".", "0", " ", "G", "P", "A">>)

---------------------------------------------------------------------------
(* Properties of the validators of the data model *)

\* A GPA, in tenths, is in the closed range 0.0 .. 4.0
GpaInRange(gpa) == gpa.float >= 0 /\ gpa.float <= 40

\* The parts whose one fault, if any, is the GPA of their one education.
GpaOnly(parts) ==
    \E g \in {NoneObj} \cup {Float(x) : x \in -1..41} :
        parts = [RecordBase EXCEPT
                    !.education = DictSection(<<[EducationBase EXCEPT !.gpa = g]>>)]

\* C19: constructing an Education, by a client or by from_dict, fails with a
\* validation error for a GPA below 0.0 or above 4.0, and succeeds, keeping
\* the GPA, for a GPA from 0.0 to 4.0, the two ends included, and for none.
C19_GpaRange ==
    /\ \A o \in Made :
        /\ \A i \in DOMAIN SectionList(o.parts.education) :
            LET gpa == SectionList(o.parts.education)[i].gpa
            IN  gpa # NoneObj /\ ~GpaInRange(gpa) => ~o.res.ok
        /\ GpaOnly(o.parts) =>
            LET gpa == SectionList(o.parts.education)[1].gpa
            IN  IF gpa = NoneObj \/ GpaInRange(gpa)
                THEN o.res.ok /\ o.res.v.education.items[1].gpa = gpa
                ELSE ~o.res.ok /\ o.res.err = "ValueError"
    /\ \A o \in Held :
        \A i \in DOMAIN o.res.v.education.items :
            LET gpa == o.res.v.education.items[i].gpa
            IN  gpa = NoneObj \/ GpaInRange(gpa)

\* from_dict has built an Education with a GPA of exactly 4.0 .
C19_UpperEndLoaded ==
    /\ loaded.made /\ loaded.res.ok
    /\ GpaOnly(data.d)
    /\ loaded.res.v.education.items[1].gpa = Float(40)

\* A text is ten decimal digits and nothing else.
TenDigits(text) == Len(text) = 10 /\ \A i \in DOMAIN text : IsDigit(text[i])

\* The objects made from parts whose one fault, if any, is the number of
\* the header, a text that is not empty.
NumberOnly(o) ==
    /\ o.parts.header # HeaderAbsent
    /\ o.parts.header.number \notin {None, Missing, <<>>}
    /\ o.parts = [RecordBase EXCEPT !.header.number = o.parts.header.number]

\* What PhoneNumber does: it takes ten digits, with or without one line
\* end after them, and keeps the text as it was given.
PhoneNumberTaken ==
    \A o \in Made :
        NumberOnly(o) =>
            LET n == o.parts.header.number
            IN  /\ o.res.ok <=> (TenDigits(n) \/ (n # <<>> /\ n[Len(n)] = "\n" /\ TenDigits(Front(n))))
                /\ ~o.res.ok => o.res.err = "ValueError"
                /\ o.res.ok => Str(o.res.v.header.number) = n

\* C20: PhoneNumber takes exactly the texts of ten decimal digits and
\* nothing else, its string form then being the text; every other text
\* fails with a validation error.
C20_PhoneTenDigits ==
    \A o \in Made :
        NumberOnly(o) =>
            LET n == o.parts.header.number
            IN  /\ o.res.ok <=> TenDigits(n)
                /\ ~o.res.ok => o.res.err = "ValueError"
                /\ o.res.ok => Str(o.res.v.header.number) = n

\* A Header has been built with a number of ten digits and a line end.
C20_LineEndTaken ==
    \E o \in Held :
        /\ NumberOnly(o)
        /\ o.parts.header.number = T_phone \o <<"\n">>
        /\ Str(o.res.v.header.number) = T_phone \o <<"\n">>

\* The objects made from parts whose one fault, if any, is the one bullet
\* of their one experience.
BulletOnly(o) ==
    /\ SectionList(o.parts.experience) # <<>>
    /\ Len(SectionList(o.parts.experience)[1].description) = 1
    /\ o.parts = [RecordBase EXCEPT !.experience = DictSection(
            <<[ExperienceBase EXCEPT
                !.description = SectionList(o.parts.experience)[1].description]>>)]

\* The text of the bullet of such parts.
BulletText(o) == SectionList(o.parts.experience)[1].description[1].text

\* C21: BulletPoint refuses every text of more than 100 characters: no
\* object is made of parts with such a bullet, and a bullet of 101
\* characters alone fails with a validation error.
C21_Over100Refused ==
    \A o \in Made :
        /\ \A i \in DOMAIN SectionList(o.parts.experience) :
            \A j \in DOMAIN SectionList(o.parts.experience)[i].description :
                Len(SectionList(o.parts.experience)[i].description[j].text) > OldBulletLen
                    => ~o.res.ok
        /\ BulletOnly(o) /\ Len(BulletText(o)) > OldBulletLen
            => ~o.res.ok /\ o.res.err = "ValueError"

\* An Experience has been built with a bullet of 101 characters.
C21_Bullet101Held ==
    \E o \in Held :
        /\ BulletOnly(o)
        /\ Len(BulletText(o)) = OldBulletLen + 1
        /\ o.res.v.experience.items[1].description[1].text = Xs(OldBulletLen + 1)

C23_OnlyValueError ==
    /\ loaded.made /\ ~loaded.res.ok => loaded.res.err = "ValueError"
    /\ resume.made /\ ~resume.res.ok /\ resume.parts.header.name # Missing
        => resume.res.err = "ValueError"

\* from_dict has failed with a KeyError on a record whose education has no
\* key "school".
C23_KeyErrorLoaded ==
    /\ loaded.made /\ ~loaded.res.ok
    /\ loaded.res.err = "KeyError"
    /\ SectionList(data.d.education) # <<>>
    /\ SectionList(data.d.education)[1].school = Missing

\* from_dict has failed with an AttributeError on a record whose experience
\* has null for its start date.
C23_AttributeErrorLoaded ==
    /\ loaded.made /\ ~loaded.res.ok
    /\ loaded.res.err = "AttributeError"
    /\ SectionList(data.d.experience) # <<>>
    /\ SectionList(data.d.experience)[1].start_date = None

\* The times the clock shows in a run.
ClockTimes == ClockStart..ClockEnd

\* A Date made of a text is as the text requires: "present" in any letter
\* case is held as "present" and is the clock's time at every time; any
\* other text is held as written and is one time whatever the clock shows.
DateKept(text, date) ==
    IF Lower(text) = S_present
    THEN /\ Str(date) = S_present
         /\ \A t \in ClockTimes : to_datetime(date, t) = t
    ELSE /\ Str(date) = text
         /\ \A t \in ClockTimes : \A u \in ClockTimes :
                to_datetime(date, t) = to_datetime(date, u)

\* C24: every Date of a Resume is the Date of its text: "present", in any
\* letter case, in the form "present" and at the current time; every other
\* date with its text as its string form and at one fixed time.
C24_DateForms ==
    \A o \in Held :
        /\ \A i \in DOMAIN o.res.v.experience.items :
            LET e == SectionList(o.parts.experience)[i]
                held == o.res.v.experience.items[i]
            IN  /\ DateKept(e.start_date, held.start_date)
                /\ DateKept(IF Truthy(e.end_date) THEN e.end_date ELSE S_present,
                            held.end_date)
        /\ \A i \in DOMAIN o.res.v.education.items :
            DateKept(SectionList(o.parts.education)[i].start_date,
                     o.res.v.education.items[i].start_date)

\* An Experience has been built whose end date was given as "Present" and
\* is held as "present".
C24_PresentCanonical ==
    \E o \in Held :
        /\ o.res.v.experience.items # <<>>
        /\ SectionList(o.parts.experience)[1].end_date = T_Present
        /\ Str(o.res.v.experience.items[1].end_date) = S_present
        /\ Str(o.res.v.experience.items[1].start_date) = D_2022


---------------------------------------------------------------------------
(* Properties of the section order *)

\* The key of the saved record and the mark in the exported document that
\* belong to each line of the order list.
SectionKey ==
    ("Header" :> "header") @@ ("Skills" :> "skills") @@ ("Experience" :> "experience") @@
    ("Projects" :> "projects") @@ ("Education" :> "education")
SectionMark ==
    ("Header" :> "\\begin{center}") @@ ("Skills" :> "\\section{Skills}") @@
    ("Experience" :> "\\section{Experience}") @@ ("Projects" :> "\\section{Projects}") @@
    ("Education" :> "\\section{Education}")

\* The place of a section in an order.
PlaceIn(order, name) == CHOOSE i \in DOMAIN order : order[i] = name

\* The order holds each of the five sections once.
IsSectionOrder(order) ==
    /\ Len(order) = Len(section_order)
    /\ \A name \in DOMAIN SectionKey : \E i \in DOMAIN order : order[i] = name

\* The keys of the saved record stand in this order.
SavedInOrder(order) ==
    to_dict_keys = [i \in DOMAIN order |-> SectionKey[order[i]]]

\* The sections that a document shows stand in it in this order.
ExportedInOrder(out, order) ==
    \A a \in DOMAIN SectionMark : \A b \in DOMAIN SectionMark :
        PlaceIn(order, a) < PlaceIn(order, b)
            => Before(out, SectionMark[a], SectionMark[b])

\* The order list always holds the five sections, each once.
SectionOrderPermuted == IsSectionOrder(ui.section_order)

\* C25: the section order kept by Move Up and Move Down is always a
\* permutation of the five sections, and it is the order of the sections in
\* the record that Save writes and in the document that Export makes of it.
C25_SectionOrder ==
    /\ IsSectionOrder(ui.section_order)
    /\ (built.made /\ data.origin = "to_dict") => SavedInOrder(ui.section_order)
    /\ \A k \in Newest :
        built.made => ExportedInOrder(latex[k].res.v, ui.section_order)

\* Education was moved above Skills, and the file saved and exported then
\* shows both sections, Skills first.
C25_MovedThenExported ==
    /\ built.made
    /\ PlaceIn(ui.section_order, "Education") < PlaceIn(ui.section_order, "Skills")
    /\ ~SavedInOrder(ui.section_order)
    /\ \E k \in Newest :
        LET out == latex[k].res.v
        IN  /\ Places(out, SectionMark["Skills"]) # {}
            /\ Places(out, SectionMark["Education"]) # {}
            /\ Before(out, SectionMark["Skills"], SectionMark["Education"])

---------------------------------------------------------------------------
(* Properties of the entry lists *)

\* The Resume that Save has just built.
BuiltResume == built.res.v

\* The lines of a list that are ticked, in the order of the list.
Ticked(list) ==
    LET at == Ordered({i \in DOMAIN list : list[i].include})
    IN  [n \in DOMAIN at |-> list[at[n]]]

\* The object that stands in the Resume for a line of a list.
IsSkillType(obj, e) == obj.name = e.name /\ obj.skills.elems = Range(e.skills)
IsExperience(obj, e) ==
    /\ obj.position = e.position
    /\ obj.company = e.company
    /\ [k \in DOMAIN obj.description |-> obj.description[k].text] = e.description
IsProject(obj, e) ==
    /\ obj.name = e.name
    /\ obj.skills = e.skills
    /\ [k \in DOMAIN obj.description |-> obj.description[k].text] = e.description
    /\ IF e.link = None THEN obj.link = NoneObj ELSE obj.link = [value |-> e.link]
IsEducation(obj, e) ==
    /\ obj.school = e.school
    /\ obj.degree = e.degree
    /\ obj.awards = e.awards
    /\ obj.gpa = e.gpa

\* A section holds the ticked lines of its list, one object for each, in
\* their order, and is unset when no line is ticked.
SkillsAsTicked(sec, list) ==
    /\ sec.present <=> Ticked(list) # <<>>
    /\ Len(sec.items) = Len(Ticked(list))
    /\ \A n \in DOMAIN sec.items : IsSkillType(sec.items[n], Ticked(list)[n])
ExperienceAsTicked(sec, list) ==
    /\ sec.present <=> Ticked(list) # <<>>
    /\ Len(sec.items) = Len(Ticked(list))
    /\ \A n \in DOMAIN sec.items : IsExperience(sec.items[n], Ticked(list)[n])
ProjectsAsTicked(sec, list) ==
    /\ sec.present <=> Ticked(list) # <<>>
    /\ Len(sec.items) = Len(Ticked(list))
    /\ \A n \in DOMAIN sec.items : IsProject(sec.items[n], Ticked(list)[n])
EducationAsTicked(sec, list) ==
    /\ sec.present <=> Ticked(list) # <<>>
    /\ Len(sec.items) = Len(Ticked(list))
    /\ \A n \in DOMAIN sec.items : IsEducation(sec.items[n], Ticked(list)[n])

\* C26: whatever was added, edited, deleted, moved and ticked before, the
\* Resume that _build_resume_object gives holds exactly the entries whose
\* include flag is set, in the order of their list, and a section of which
\* no entry is included is None, not a section without entries.
C26_IncludedEntries ==
    (built.made /\ built.res.ok) =>
        /\ SkillsAsTicked(BuiltResume.skills, ui.skill_types)
        /\ ExperienceAsTicked(BuiltResume.experience, ui.experiences)
        /\ ProjectsAsTicked(BuiltResume.projects, ui.projects)
        /\ EducationAsTicked(BuiltResume.education, ui.educations)
        /\ \A name \in SectionNames :
            BuiltResume[name].present => BuiltResume[name].items # <<>>

\* A Resume was built while the project list held two different entries,
\* the first of them not included.
C26_OneOfTwoIncluded ==
    /\ built.made
    /\ built.res.ok
    /\ Len(ui.projects) = 2
    /\ ui.projects[1] # ui.projects[2]
    /\ ~ui.projects[1].include
    /\ ui.projects[2].include
    /\ BuiltResume.projects.present
    /\ Len(BuiltResume.projects.items) = 1
    /\ IsProject(BuiltResume.projects.items[1], ui.projects[2])

\* What a move of the line idx by delta makes of a list: the line and its
\* neighbour on that side have changed places and every other line is
\* where it was; with no neighbour on that side, the list is as it was.
MovedAsClaimed(old, new, idx, delta) ==
    LET to == idx + delta
    IN  /\ Len(new) = Len(old)
        /\ IF to \in DOMAIN old
           THEN /\ new[to] = old[idx]
                /\ new[idx] = old[to]
                /\ \A k \in DOMAIN old \ {idx, to} : new[k] = old[k]
           ELSE new = old

\* The lines of a list, each with the number of times it stands in it.
Lines(list) == [e \in Range(list) |-> Cardinality({i \in DOMAIN list : list[i] = e})]

\* C27: Move Up and Move Down on a list of entries or of bullets make the
\* selected line and its neighbour change places, and nothing at the first
\* line (Up) and at the last (Down): the list keeps its length and its
\* lines, each with its fields and its include flag, and no other list
\* changes.
C27_MoveSwaps ==
    [][/\ \A items \in ListNames : \A delta \in Deltas : \A idx \in DOMAIN ui[items] :
            (Closed /\ move_item_at(items, idx, delta)) =>
                /\ MovedAsClaimed(ui[items], ui'[items], idx, delta)
                /\ Lines(ui'[items]) = Lines(ui[items])
                /\ \A other \in ListNames \ {items} : ui'[other] = ui[other]
                /\ ui'.dialog = ui.dialog
       /\ \A delta \in Deltas : \A idx \in DOMAIN ui.dialog.bullets :
            BulletsEditor_move_at(idx, delta) =>
                /\ MovedAsClaimed(ui.dialog.bullets, ui'.dialog.bullets, idx, delta)
                /\ Lines(ui'.dialog.bullets) = Lines(ui.dialog.bullets)
                /\ \A other \in ListNames : ui'[other] = ui[other]]_vars

\* The project list holds two different entries, one of them not included,
\* and the editor of the open dialog two different bullets: lists on which
\* a move shows.
C27_TwoLinesToMove ==
    /\ Len(ui.projects) = 2
    /\ ui.projects[1] # ui.projects[2]
    /\ ui.projects[1].include # ui.projects[2].include
    /\ ui.dialog.open
    /\ Len(ui.dialog.bullets) = 2
    /\ ui.dialog.bullets[1] # ui.dialog.bullets[2]

\* What an edit of the line idx makes of a list when the dialog hands back
\* this result: the line holds the result with the include flag it had,
\* and every other line is as it was.
EditedAsClaimed(old, new, idx, result) ==
    /\ Len(new) = Len(old)
    /\ new[idx].include = old[idx].include
    /\ \A field \in DOMAIN result \ {"include"} : new[idx][field] = result[field]
    /\ \A k \in DOMAIN old \ {idx} : new[k] = old[k]

\* C28: an edit replaces the one entry.  The entry stays at its place with
\* the include flag it had, the other entries, the length of the list and
\* the other lists stay as they were; and when the dialog is left by
\* Cancel, or its Save is refused for a field that is required, the lists
\* are as before.
C28_EditReplacesOne ==
    [][\A items \in ListNames : \A idx \in DOMAIN ui[items] :
        \A f \in DialogFields[items], saved \in BOOLEAN :
            edit_closed(items, idx, Outcome(items, f, saved)) =>
                /\ IF Outcome(items, f, saved).ok
                   THEN EditedAsClaimed(ui[items], ui'[items], idx, Outcome(items, f, saved).v)
                   ELSE ui'[items] = ui[items]
                /\ \A other \in ListNames \ {items} : ui'[other] = ui[other]]_vars

\* The experience list holds two entries, the first of them not included:
\* a list on which an edit of the first entry shows.
C28_ExcludedEntryToEdit ==
    /\ Len(ui.experiences) = 2
    /\ ~ui.experiences[1].include
    /\ ui.experiences[2].include
    /\ ui.experiences[1].start_date # ui.experiences[2].start_date

---------------------------------------------------------------------------
(* Properties of Load *)

\* The header fields and the four lists of the window.
Shown(u) ==
    <<u.name, u.email, u.phone, u.linkedin, u.portfolio, u.github,
      u.skill_types, u.experiences, u.projects, u.educations>>

\* A list holds one entry for each object of the section, in their order,
\* every one of them included.
LoadedFrom(list, sec) ==
    /\ Len(list) = Len(sec.items)
    /\ \A i \in DOMAIN list : list[i].include

\* on_load came to its end: the file was read, from_dict gave a Resume,
\* and every entry was made.
LoadDone(file, tick) ==
    /\ read_file(file, hashSeed, now, tick).ok
    /\ ~LoadRaises(read_file(file, hashSeed, now, tick).v)

\* The four lists are those of the Resume that the file gave.
ListsLoaded(u, r) ==
    /\ LoadedFrom(u.skill_types, r.skills)
    /\ \A i \in DOMAIN u.skill_types : IsSkillType(r.skills.items[i], u.skill_types[i])
    /\ LoadedFrom(u.experiences, r.experience)
    /\ \A i \in DOMAIN u.experiences : IsExperience(r.experience.items[i], u.experiences[i])
    /\ LoadedFrom(u.projects, r.projects)
    /\ \A i \in DOMAIN u.projects : IsProject(r.projects.items[i], u.projects[i])
    /\ LoadedFrom(u.educations, r.education)
    /\ \A i \in DOMAIN u.educations : IsEducation(r.education.items[i], u.educations[i])

\* When the file cannot be read or from_dict refuses its record, the
\* window is as before.
LoadRefusedChangesNothing ==
    [][\A file \in LoadFiles, tick \in Ticks :
        (on_load_of(file, tick) /\ ~read_file(file, hashSeed, now, tick).ok)
            => Shown(ui') = Shown(ui)]_vars

\* When on_load comes to its end, the four lists are the loaded entries.
LoadDoneReplaces ==
    [][\A file \in LoadFiles, tick \in Ticks :
        (on_load_of(file, tick) /\ LoadDone(file, tick))
            => ListsLoaded(ui', read_file(file, hashSeed, now, tick).v)]_vars

\* C29: a load that fails changes nothing, and a load that succeeds
\* replaces each of the four lists by the loaded entries, all of them
\* included: after on_load the header fields and the lists are as before,
\* unless on_load came to its end, and then the lists are those of the file.
C29_LoadAllOrNothing ==
    [][\A file \in LoadFiles, tick \in Ticks :
        on_load_of(file, tick) =>
            IF LoadDone(file, tick)
            THEN ListsLoaded(ui', read_file(file, hashSeed, now, tick).v)
            ELSE Shown(ui') = Shown(ui)]_vars

\* The window after a load that stopped at the second project of the file:
\* the header, the skill group, the experience and the first project of the
\* file are shown, and no education.
C29_HalfLoaded ==
    /\ ui.name = HeaderFull.name
    /\ ui.phone = HeaderFull.number
    /\ Len(ui.experiences) = 1
    /\ Len(ui.projects) = 1
    /\ ui.educations = <<>>

---------------------------------------------------------------------------
(* Properties of validity over time *)

\* from_dict accepts the record of the Resume in hand now, however the
\* clock moves on during the call.
AcceptedNow(d) == \A tick \in Ticks : from_dict(d, hashSeed, now, tick).ok

\* C30: validity is stable over time.  A record that from_dict has
\* accepted is accepted by from_dict at every later time of the clock.
C30_ValidityStable ==
    (loaded.made /\ loaded.res.ok) => AcceptedNow(loaded.parts)

\* A record was accepted, the clock has moved on since, and from_dict now
\* refuses the same record for its dates, however the clock moves on during
\* the call.
C30_AcceptedThenRefused ==
    /\ loaded.made
    /\ loaded.res.ok
    /\ now > loaded.t + loaded.tick
    /\ \A tick \in Ticks : from_dict(loaded.parts, hashSeed, now, tick).err = "ValueError"
===========================================================================
